---- MODULE Spec2Model ----
(***************************************************************************)
(* A model of the typed term algebra of tlspuffin: the term tree and its   *)
(* post-order iterator, the evaluator, the describe-wrapped dynamic        *)
(* functions and the term zoo generator.                                   *)
(*                                                                         *)
(* Each component has its own variables and its own specification; a       *)
(* specification leaves the variables of the other components untouched.   *)
(***************************************************************************)
EXTENDS Integers, Sequences, FiniteSets, TLC

VARIABLES
    knowledge,      \* TraceContext: the knowledge base, in insertion order
    claims,         \* TraceContext: the claim store, in insertion order
    failing,        \* names of the host functions that return Err(FnError)
    evaluated,      \* the last Term::evaluate call: its arguments and returns
    called,         \* the last call of a describe-wrapped dynamic function
    iterated,       \* the last term iterated, with what the iterator yielded
    signature,      \* TermZoo::generate: the signature it runs over
    rand,           \* TermZoo::generate: the rng, a tape of draws and a position
    def_index,      \* TermZoo::generate: position of the filter_map over functions
    terms,          \* TermZoo::generate: the terms collected so far
    counter,        \* TermZoo::generate: attempts left for the current function
    seed,           \* the rng state the caller builds from its seed
    first_run,      \* what an earlier TermZoo::generate call from that seed returned
    trace,          \* harness: the input trace, with what its environment does
    pc,             \* harness: where the call is
    step_index,     \* Trace::execute: steps of the trace gone through
    executed,       \* Trace::execute: the steps executed, in the order executed
    returned,       \* what Trace::execute returned to the harness
    stats,          \* the statistics counters of the process
    exit_kind,      \* what the harness returned, or that the process was aborted
    agents,         \* TraceContext: the agents whose PUT is open
    CURRENT_SIGNATURE,  \* the process-wide signature anchor, a OnceCell
    installed,      \* the set_current_signature calls made, with what each returned
    persisted,      \* the last value serialized, with what became of the artifact
    stripped,       \* the last type name handed to remove_prefix, with the result
    chosen,         \* the last cipher suite negotiation, with what was selected
    hh,             \* a HandshakeHashBuffer, or the HandshakeHash made of it
    calls,          \* the calls made on hh, in order, with what each returned
    wire            \* the last payload encoded, with what reading it back gave

evalVars == <<knowledge, claims, failing, evaluated>>
dynVars  == <<called>>
iterVars == <<iterated>>
zooVars  == <<signature, rand, def_index, counter, terms, seed, first_run>>
harnessVars == <<trace, pc, step_index, executed, returned, stats, exit_kind, agents>>
anchorVars  == <<CURRENT_SIGNATURE, installed>>
serdeVars   == <<persisted>>
prettyVars  == <<stripped>>
tlsVars     == <<chosen, hh, calls, wire>>
restVars == <<harnessVars, anchorVars, serdeVars, prettyVars, tlsVars>>
vars     == <<evalVars, dynVars, iterVars, zooVars, restVars>>

(***************************************************************************)
(* Bounds of the model.                                                    *)
(***************************************************************************)
MaxKnowledge == 2   \* knowledge items in a context
MaxClaims    == 1   \* claims in a context
MaxArgs      == 3   \* longest argument vector handed to a dynamic function
MaxIterDepth == 4   \* depth of the terms handed to the iterator
TapeLen      == 7   \* length of the rng's cyclic tape of draws
RandRange    == 2   \* a raw draw of the rng is in 0 .. RandRange-1

(***************************************************************************)
(* Option and Result values.                                               *)
(***************************************************************************)
None      == [some |-> FALSE]
Some(v)   == [some |-> TRUE, v |-> v]
Ok(v)     == [kind |-> "Ok", value |-> v]
Err(e)    == [kind |-> "Err", error |-> e]
Panic(m)  == [kind |-> "Panic", msg |-> m]

(***************************************************************************)
(* Type shapes and function shapes.  A type shape is its name; a shape is  *)
(* a name, the argument types in order and the return type.                *)
(***************************************************************************)
Shape(name, argument_types, return_type) ==
    [name |-> name, argument_types |-> argument_types, return_type |-> return_type]

arity(shape) == Len(shape.argument_types)

fn_hmac256_new_key == Shape("fn_hmac256_new_key", <<>>, "HmacKey")
fn_hmac256 == Shape("fn_hmac256", <<"HmacKey", "Vec<u8>">>, "Vec<u8>")
fn_empty_bytes_vec == Shape("fn_empty_bytes_vec", <<>>, "Vec<u8>")
fn_finished == Shape("fn_finished", <<>>, "HandshakeMessage")
fn_seq_0 == Shape("fn_seq_0", <<>>, "u32")
fn_seq_1 == Shape("fn_seq_1", <<>>, "u32")
fn_encrypt12 == Shape("fn_encrypt12", <<"HandshakeMessage", "u32">>, "Encrypted")
fn_client_extensions_new == Shape("fn_client_extensions_new", <<>>, "ClientExtensions")
fn_client_extensions_append ==
    Shape("fn_client_extensions_append",
          <<"ClientExtensions", "ClientExtension">>, "ClientExtensions")
fn_signature_algorithm_extension ==
    Shape("fn_signature_algorithm_extension", <<>>, "ClientExtension")
fn_support_group_extension ==
    Shape("fn_support_group_extension", <<"Group">>, "ClientExtension")
fn_named_group_secp384r1 == Shape("fn_named_group_secp384r1", <<>>, "Group")
fn_renegotiation_info_extension ==
    Shape("fn_renegotiation_info_extension", <<"Vec<u8>">>, "ClientExtension")
example_op_c == Shape("example_op_c", <<"u8">>, "u16")
fn_a == Shape("fn_a", <<>>, "A")
fn_b == Shape("fn_b", <<>>, "B")
fn_c == Shape("fn_c", <<"A", "B">>, "C")

(***************************************************************************)
(* Evaluated values: a type shape and a payload.  The value a host         *)
(* function returns is kept symbolic: the function and the payloads of     *)
(* its arguments, in order.                                                *)
(***************************************************************************)
Data(typ, n) == [typ |-> typ, val |-> [data |-> n]]
ClaimData(typ, n) == [typ |-> typ, val |-> [claim |-> n]]

Payloads(args) == [i \in 1..Len(args) |-> args[i].val]

host_fn(shape, args) ==
    [typ |-> shape.return_type, val |-> [f |-> shape.name, args |-> Payloads(args)]]

(***************************************************************************)
(* Terms.  A term is a Variable (a type shape and a query) or an           *)
(* Application of a function symbol to an ordered sequence of sub-terms.   *)
(***************************************************************************)
Variable(typ, query) == [kind |-> "Variable", typ |-> typ, query |-> query]
Application(func, subterms) ==
    [kind |-> "Application", func |-> func, subterms |-> subterms]

NoSource    == [kind |-> "None"]
Agent(name) == [kind |-> "Agent", agent_name |-> name]
Label       == [kind |-> "Label"]

Query(source, nth) == [source |-> source, counter |-> nth]

get_type_shape(term) ==
    IF term.kind = "Variable" THEN term.typ ELSE term.func.return_type

RECURSIVE size(_)
RECURSIVE size_sum(_, _)
size_sum(subterms, i) ==
    IF i > Len(subterms) THEN 0 ELSE size(subterms[i]) + size_sum(subterms, i + 1)

size(term) ==
    IF term.kind = "Variable" THEN 1 ELSE size_sum(term.subterms, 1) + 1

(***************************************************************************)
(* The iterator of &Term: append pushes a reference to every node.  A      *)
(* reference is modelled by the node's position in the iterated term (the  *)
(* child indices from the root) together with the node it points to.       *)
(***************************************************************************)
Ref(path, term) == [path |-> path, term |-> term]

RECURSIVE append(_, _, _)
RECURSIVE append_subterms(_, _, _, _)
RECURSIVE append_preorder(_, _, _)

append_subterms(subterms, i, path, v) ==
    IF i > Len(subterms) THEN v
    ELSE append_subterms(subterms, i + 1, path,
                         append(subterms[i], Append(path, i), v))

\* Mutant of append: the node is pushed before its sub-terms.
append_preorder(term, path, v) ==
    IF term.kind = "Variable" THEN Append(v, Ref(path, term))
    ELSE append_subterms(term.subterms, 1, path, Append(v, Ref(path, term)))

append(term, path, v) ==
    Append(IF term.kind = "Variable" THEN v
           ELSE append_subterms(term.subterms, 1, path, v),
           Ref(path, term))

into_iter(self) == append(self, <<>>, <<>>)

RECURSIVE variables(_)
RECURSIVE variables_of_args(_, _)
variables_of_args(args, i) ==
    IF i > Len(args) THEN <<>>
    ELSE variables(args[i]) \o variables_of_args(args, i + 1)

variables(term) ==
    IF term.kind = "Variable" THEN <<term>> ELSE variables_of_args(term.subterms, 1)

(***************************************************************************)
(* The trace context: knowledge and claims.  The data of the n-th          *)
(* knowledge item is n, so that items of one type are told apart.          *)
(***************************************************************************)
AgentNames == {0, 1}
DataTypes  == {"Vec<u8>", "HmacKey"}

Context(k, c) == [knowledge |-> k, claims |-> c]

Filter(seq, Test(_)) == SelectSeq(seq, Test)

\* Mutant of find_variable: the candidates are counted from the newest.
find_variable_newest_first(context, typ, query) ==
    LET Matches(k) ==
            /\ k.data.typ = typ
            /\ (query.source.kind = "Agent" => k.agent_name = query.source.agent_name)
        candidates == SelectSeq(context.knowledge, Matches)
    IN  IF query.counter < Len(candidates)
        THEN Some(candidates[Len(candidates) - query.counter].data)
        ELSE None

find_variable(context, typ, query) ==
    LET Matches(k) ==
            /\ k.data.typ = typ
            /\ (query.source.kind = "Agent" => k.agent_name = query.source.agent_name)
        candidates == Filter(context.knowledge, Matches)
    IN  IF query.counter < Len(candidates)
        THEN Some(candidates[query.counter + 1].data)
        ELSE None

find_claim(context, agent_name, typ) ==
    LET Matches(c) == c.agent_name = agent_name /\ c.data.typ = typ
        candidates == Filter(context.claims, Matches)
    IN  IF candidates = <<>> THEN None ELSE Some(candidates[Len(candidates)].data)

(***************************************************************************)
(* Errors.                                                                 *)
(***************************************************************************)
ErrorTerm(msg) == [variant |-> "Term", msg |-> msg]
ErrorFn(e)     == [variant |-> "Fn", inner |-> e]
FnError(variant, msg) == [fn_error |-> variant, msg |-> msg]

UnableToFindVariable(variable) ==
    ErrorTerm([text |-> "Unable to find variable", variable |-> variable])

(***************************************************************************)
(* Dynamic functions.                                                      *)
(*                                                                         *)
(* make_dynamic is the closure the dynamic_fn! macro builds: for each      *)
(* declared argument, in order, it takes args.get(index), panics when      *)
(* there is none, downcasts it, panics when the type differs, and          *)
(* increments index; then it calls the host function on the downcast       *)
(* arguments.  It returns the result and the host calls it made.           *)
(***************************************************************************)
MissingArgument(index, shape) ==
    [text |-> "Missing argument", index |-> index, name |-> shape.name]
DidNotMatch(index, shape) ==
    [text |-> "did not match the shape", index |-> index, name |-> shape.name]

RECURSIVE downcast_args(_, _, _)
downcast_args(shape, args, index) ==
    IF index = arity(shape) THEN Ok(SubSeq(args, 1, index))
    ELSE IF index >= Len(args) THEN Panic(MissingArgument(index + 1, shape))
    ELSE IF args[index + 1].typ = shape.argument_types[index + 1]
         THEN downcast_args(shape, args, index + 1)
         ELSE Panic(DidNotMatch(index + 1, shape))

make_dynamic(shape, args) ==
    LET typed == downcast_args(shape, args, 0)
    IN  IF typed.kind = "Ok"
        THEN [result |-> Ok(host_fn(shape, typed.value)),
              host_calls |-> <<[func |-> shape.name, args |-> typed.value]>>]
        ELSE [result |-> typed, host_calls |-> <<>>]

(***************************************************************************)
(* The dynamic function of a Function symbol, as Term::evaluate of the     *)
(* puffin crate calls it: it returns Result<value, FnError>.  A host       *)
(* function named in `failing` returns Err.                                *)
(***************************************************************************)
dynamic_fn(shape, args) ==
    IF Len(args) # arity(shape)
    THEN Err(FnError("WrongArity", [expected |-> arity(shape), got |-> Len(args)]))
    ELSE IF \E i \in 1..Len(args) : args[i].typ # shape.argument_types[i]
    THEN Err(FnError("TypeMismatch",
             [index |-> CHOOSE i \in 1..Len(args) :
                           /\ args[i].typ # shape.argument_types[i]
                           /\ \A j \in 1..(i-1) : args[j].typ = shape.argument_types[j]]))
    ELSE IF shape.name \in failing
    THEN Err(FnError("Unknown", [name |-> shape.name]))
    ELSE Ok(host_fn(shape, args))

(***************************************************************************)
(* Term::evaluate (puffin/src/algebra/term.rs).  It returns the Result     *)
(* and, in order, the calls it made on the context and on dynamic          *)
(* functions.                                                              *)
(***************************************************************************)
EvFindVariable(variable) == [op |-> "find_variable", variable |-> variable]
EvFindClaim(variable)    == [op |-> "find_claim", variable |-> variable]
EvDynamicFn(func, args)  == [op |-> "dynamic_fn", func |-> func.name, args |-> args]

\* Mutant of evaluate_variable: the claim store is asked first.
evaluate_variable_claims_first(variable, context) ==
    LET source == variable.query.source
        claim == IF source.kind = "Agent"
                 THEN find_claim(context, source.agent_name, variable.typ)
                 ELSE None
        data == IF claim.some THEN claim
                ELSE find_variable(context, variable.typ, variable.query)
    IN  [result |-> IF data.some THEN Ok(data.v)
                    ELSE Err(UnableToFindVariable(variable)),
         events |-> IF source.kind = "Agent"
                    THEN <<EvFindClaim(variable), EvFindVariable(variable)>>
                    ELSE <<EvFindVariable(variable)>>]

evaluate_variable(variable, context) ==
    LET data == find_variable(context, variable.typ, variable.query)
        source == variable.query.source
        or_else == IF data.some THEN data
                   ELSE IF source.kind = "Agent"
                        THEN find_claim(context, source.agent_name, variable.typ)
                        ELSE None
        events == IF data.some \/ source.kind # "Agent"
                  THEN <<EvFindVariable(variable)>>
                  ELSE <<EvFindVariable(variable), EvFindClaim(variable)>>
    IN  [result |-> IF or_else.some THEN Ok(or_else.v)
                    ELSE Err(UnableToFindVariable(variable)),
         events |-> events]

RECURSIVE evaluate(_, _)
RECURSIVE evaluate_args(_, _, _, _, _)
RECURSIVE evaluate_args_no_abort(_, _, _, _, _)

\* Mutant of evaluate_args: the sub-terms after a failing one are evaluated
\* too, and the first error is returned at the end.
evaluate_args_no_abort(args, i, context, dynamic_args, events) ==
    IF i > Len(args) THEN [result |-> Ok(dynamic_args), events |-> events]
    ELSE LET r == evaluate(args[i], context)
         IN  IF r.result.kind = "Ok"
             THEN evaluate_args_no_abort(args, i + 1, context,
                                         Append(dynamic_args, r.result.value),
                                         events \o r.events)
             ELSE [result |-> r.result,
                   events |-> evaluate_args_no_abort(args, i + 1, context, dynamic_args,
                                                     events \o r.events).events]

evaluate_args(args, i, context, dynamic_args, events) ==
    IF i > Len(args) THEN [result |-> Ok(dynamic_args), events |-> events]
    ELSE LET r == evaluate(args[i], context)
         IN  IF r.result.kind = "Ok"
             THEN evaluate_args(args, i + 1, context,
                                Append(dynamic_args, r.result.value),
                                events \o r.events)
             ELSE [result |-> r.result, events |-> events \o r.events]

evaluate(self, context) ==
    IF self.kind = "Variable" THEN evaluate_variable(self, context)
    ELSE LET a == evaluate_args(self.subterms, 1, context, <<>>, <<>>)
         IN  IF a.result.kind # "Ok" THEN a
             ELSE LET result == dynamic_fn(self.func, a.result.value)
                  IN  [result |-> IF result.kind = "Err"
                                  THEN Err(ErrorFn(result.error)) ELSE result,
                       events |-> Append(a.events, EvDynamicFn(self.func, a.result.value))]

(***************************************************************************)
(* Term::evaluate (src/term/term.rs): the variable lookup is unwrapped,    *)
(* so a miss panics, and the dynamic function is the make_dynamic closure. *)
(***************************************************************************)
find_variable_data(context, variable) ==
    find_variable(context, variable.typ, variable.query)

RECURSIVE term_evaluate(_, _)
RECURSIVE term_evaluate_args(_, _, _, _, _)

term_evaluate_args(args, i, context, dynamic_args, events) ==
    IF i > Len(args) THEN [result |-> Ok(dynamic_args), events |-> events]
    ELSE LET r == term_evaluate(args[i], context)
         IN  IF r.result.kind = "Panic"
             THEN [result |-> r.result, events |-> events \o r.events]
             ELSE term_evaluate_args(args, i + 1, context,
                                     Append(dynamic_args, r.result.value),
                                     events \o r.events)

term_evaluate(self, context) ==
    IF self.kind = "Variable"
    THEN LET data == find_variable_data(context, self)
         IN  [result |-> IF data.some THEN Ok(data.v)
                         ELSE Panic([text |-> "unwrap on None"]),
              events |-> <<EvFindVariable(self)>>]
    ELSE LET a == term_evaluate_args(self.subterms, 1, context, <<>>, <<>>)
         IN  IF a.result.kind = "Panic" THEN a
             ELSE [result |-> make_dynamic(self.func, a.result.value).result,
                   events |-> Append(a.events, EvDynamicFn(self.func, a.result.value))]

(***************************************************************************)
(* The evaluator's state machine: the context grows by add_knowledge and   *)
(* add_claim, and a recipe is evaluated against it by both evaluators.     *)
(***************************************************************************)
OfType(S, typ) == {t \in S : get_type_shape(t) = typ}

EvalVariables ==
    {Variable(typ, Query(source, nth)) :
        typ \in DataTypes, source \in {NoSource, Agent(0), Label}, nth \in {0, 1}}

EvalLeaves ==
    EvalVariables \cup {Application(fn_hmac256_new_key, <<>>),
                        Application(fn_empty_bytes_vec, <<>>)}

EvalLevel2 ==
    {Application(fn_hmac256, <<key, msg>>) :
        key \in OfType(EvalLeaves, "HmacKey"), msg \in OfType(EvalLeaves, "Vec<u8>")}

EvalLevel3 ==
    {Application(fn_hmac256, <<key, Application(fn_hmac256, <<key2, msg>>)>>) :
        key  \in {Application(fn_hmac256_new_key, <<>>),
                  Variable("HmacKey", Query(Agent(0), 0))},
        key2 \in {Application(fn_hmac256_new_key, <<>>),
                  Variable("HmacKey", Query(Agent(0), 1))},
        msg  \in {Application(fn_empty_bytes_vec, <<>>),
                  Variable("Vec<u8>", Query(Agent(0), 0)),
                  Variable("Vec<u8>", Query(Label, 0))}}

EvalTerms == EvalLeaves \cup EvalLevel2 \cup EvalLevel3

IdleEval == knowledge = <<>> /\ claims = <<>> /\ failing = {} /\ evaluated = None
IdleDyn  == called = None
IdleIter == iterated = None
IdleZoo  == signature = <<>> /\ rand = None /\ def_index = 0 /\ counter = 0
            /\ terms = <<>>
            /\ seed = None /\ first_run = None
IdleHarness == /\ trace = None /\ pc = "idle" /\ step_index = 0 /\ executed = <<>>
               /\ returned = None /\ stats = <<>> /\ exit_kind = None
               /\ agents = {}
IdleAnchor  == CURRENT_SIGNATURE = None /\ installed = <<>>
IdleSerde   == persisted = None
IdlePretty  == stripped = None
IdleTls     == chosen = None /\ hh = None /\ calls = <<>> /\ wire = None
IdleRest == IdleHarness /\ IdleAnchor /\ IdleSerde /\ IdlePretty /\ IdleTls

InitEval ==
    /\ knowledge = <<>>
    /\ claims = <<>>
    /\ failing \in {{}, {"fn_hmac256_new_key"}, {"fn_hmac256"}}
    /\ evaluated = None
    /\ IdleDyn /\ IdleIter /\ IdleZoo /\ IdleRest

add_knowledge(agent_name, typ) ==
    /\ Len(knowledge) < MaxKnowledge
    /\ knowledge' = Append(knowledge,
                           [agent_name |-> agent_name,
                            data |-> Data(typ, Len(knowledge) + 1)])
    /\ evaluated' = None
    /\ UNCHANGED <<claims, failing, dynVars, iterVars, zooVars, restVars>>

add_claim(agent_name, typ) ==
    /\ Len(claims) < MaxClaims
    /\ claims' = Append(claims,
                        [agent_name |-> agent_name,
                         data |-> ClaimData(typ, Len(claims) + 1)])
    /\ evaluated' = None
    /\ UNCHANGED <<knowledge, failing, dynVars, iterVars, zooVars, restVars>>

Evaluate(term) ==
    /\ evaluated = None     \* one recorded call per context
    /\ evaluated' = Some([term |-> term,
                          puffin |-> evaluate(term, Context(knowledge, claims)),
                          legacy |-> term_evaluate(term, Context(knowledge, claims))])
    /\ UNCHANGED <<knowledge, claims, failing, dynVars, iterVars, zooVars, restVars>>

NextEval ==
    \/ \E a \in AgentNames, typ \in DataTypes : add_knowledge(a, typ)
    \/ \E a \in AgentNames, typ \in DataTypes : add_claim(a, typ)
    \/ \E term \in EvalTerms : Evaluate(term)

SpecEval == InitEval /\ [][NextEval]_vars

(***************************************************************************)
(* Properties of the evaluator.                                            *)
(***************************************************************************)
Min(S) == CHOOSE i \in S : \A j \in S : i <= j
Max(S) == CHOOSE i \in S : \A j \in S : j <= i

RECURSIVE EventsUpTo(_, _)
EventsUpTo(sub, k) == IF k = 0 THEN <<>> ELSE EventsUpTo(sub, k - 1) \o sub[k].events

Values(sub) == [i \in 1..Len(sub) |-> sub[i].result.value]

CurrentContext == Context(knowledge, claims)

\* What an evaluator Eval must have done on the application t, given what it
\* does on each sub-term of t: the calls of the sub-terms 1..k in that order,
\* k the first failing position, with that sub-term's failure as the result and
\* nothing after it; or, when none fails, the calls of all sub-terms in order
\* followed by one call of t's dynamic function on their values.
LeftToRight(t, out, Eval(_, _)) ==
    LET n == Len(t.subterms)
        sub == [i \in 1..n |-> Eval(t.subterms[i], CurrentContext)]
        failed == {i \in 1..n : sub[i].result.kind # "Ok"}
    IN  IF failed = {}
        THEN out.events = EventsUpTo(sub, n) \o <<EvDynamicFn(t.func, Values(sub))>>
        ELSE /\ out.result = sub[Min(failed)].result
             /\ out.events = EventsUpTo(sub, Min(failed))

\* C1: Term::evaluate on an Application evaluates its sub-terms strictly left
\* to right; when the sub-term at position i fails, evaluate returns that
\* sub-term's error, no sub-term after i is evaluated and the application's
\* dynamic function is not invoked.  (In src/term/term.rs a failure is a
\* panic, which propagates in the same way.)
C1_LeftToRight ==
    (evaluated.some /\ evaluated.v.term.kind = "Application") =>
        /\ LeftToRight(evaluated.v.term, evaluated.v.puffin, evaluate)
        /\ LeftToRight(evaluated.v.term, evaluated.v.legacy, term_evaluate)

\* C1 witness: an application whose first and second sub-terms both fail,
\* with different errors, has returned the error of the first.
C1_Witness ==
    /\ evaluated.some
    /\ evaluated.v.term.kind = "Application"
    /\ Len(evaluated.v.term.subterms) = 2
    /\ LET r1 == evaluate(evaluated.v.term.subterms[1], CurrentContext).result
           r2 == evaluate(evaluated.v.term.subterms[2], CurrentContext).result
       IN  /\ r1.kind = "Err" /\ r2.kind = "Err" /\ r1 # r2
           /\ evaluated.v.puffin.result = r1

HasEvent(events, op) == \E i \in 1..Len(events) : events[i].op = op

\* C2: Term::evaluate on a Variable returns the knowledge base's result of
\* find_variable whenever there is one; find_claim is consulted only when the
\* knowledge lookup misses and the query's source is an agent.
C2_KnowledgeBeforeClaims ==
    (evaluated.some /\ evaluated.v.term.kind = "Variable") =>
        LET v == evaluated.v.term
            out == evaluated.v.puffin
            data == find_variable(CurrentContext, v.typ, v.query)
        IN  /\ data.some => (out.result = Ok(data.v) /\ ~HasEvent(out.events, "find_claim"))
            /\ HasEvent(out.events, "find_claim") =>
                   (~data.some /\ v.query.source.kind = "Agent")
            /\ out.events[1].op = "find_variable"

\* C2 witness: the knowledge base and the claim store of the agent both hold
\* an item of the variable's type, and the variable was evaluated.
C2_Witness ==
    /\ evaluated.some
    /\ evaluated.v.term.kind = "Variable"
    /\ evaluated.v.term.query.source.kind = "Agent"
    /\ find_variable(CurrentContext, evaluated.v.term.typ, evaluated.v.term.query).some
    /\ find_claim(CurrentContext, evaluated.v.term.query.source.agent_name,
                  evaluated.v.term.typ).some
    /\ evaluated.v.puffin.result.kind = "Ok"

\* A variable found neither in the knowledge base nor in the claim store.
Missing(v) ==
    /\ ~find_variable(CurrentContext, v.typ, v.query).some
    /\ v.query.source.kind = "Agent" =>
           ~find_claim(CurrentContext, v.query.source.agent_name, v.typ).some

MissingVariables(t) ==
    {v \in {variables(t)[i] : i \in 1..Len(variables(t))} : Missing(v)}

\* The statement of C3 about one evaluator's outcome: a missing variable gives
\* the error Term("Unable to find variable ..."), and so does an application
\* that contains one (its host functions not failing).
MissingVariableIsAnError(out) ==
    (evaluated.some /\ failing = {} /\ MissingVariables(evaluated.v.term) # {}) =>
        \E v \in MissingVariables(evaluated.v.term) :
            out.result = Err(UnableToFindVariable(v))

\* C3, for Term::evaluate of puffin/src/algebra/term.rs alone.
C3_Puffin == evaluated.some => MissingVariableIsAnError(evaluated.v.puffin)

\* C3: Term::evaluate on a Variable found neither in the knowledge base nor in
\* the claim store returns the error Term("Unable to find variable ...")
\* rather than crashing, and an Application that contains such a variable
\* returns that same error.
C3_MissingVariableIsAnError ==
    evaluated.some =>
        /\ MissingVariableIsAnError(evaluated.v.puffin)
        /\ MissingVariableIsAnError(evaluated.v.legacy)

\* The knowledge items a query is about: those of its type shape and, when its
\* source is an agent, of that agent (no matcher).
Matching(typ, source) ==
    {i \in 1..Len(knowledge) :
        /\ knowledge[i].data.typ = typ
        /\ source.kind = "Agent" => knowledge[i].agent_name = source.agent_name}

\* The position at which an item was inserted: add_knowledge stamps the data.
Inserted(i) == knowledge[i].data.val.data

DynFunctions == {fn_hmac256_new_key, example_op_c, fn_hmac256}
ArgTypes     == {"HmacKey", "Vec<u8>", "u8"}

RECURSIVE ArgVectors(_)
ArgVectors(n) ==
    IF n = 0 THEN {<<>>}
    ELSE ArgVectors(n - 1)
         \cup {Append(args, Data(typ, Len(args) + 1)) :
                  args \in {a \in ArgVectors(n - 1) : Len(a) = n - 1}, typ \in ArgTypes}

InitDyn == called = None /\ IdleEval /\ IdleIter /\ IdleZoo /\ IdleRest

Call(shape, args) ==
    /\ called' = Some([shape |-> shape, args |-> args,
                       out |-> make_dynamic(shape, args)])
    /\ UNCHANGED <<evalVars, iterVars, zooVars, restVars>>

NextDyn == \E shape \in DynFunctions, args \in ArgVectors(MaxArgs) : Call(shape, args)

SpecDyn == InitDyn /\ [][NextDyn]_vars

(***************************************************************************)
(* Properties of the dynamic functions.                                    *)
(***************************************************************************)
Mismatches(shape, args) ==
    {i \in 1..Len(args) : i <= arity(shape) /\ args[i].typ # shape.argument_types[i]}

\* C4: a describe-wrapped function called with fewer arguments than its arity
\* (those given being of the declared types) returns the error value
\* Fn(Impl("Missing argument #k ...")), k the position of the first missing
\* argument; the call does not crash and the host function is not invoked.
C4_MissingArgumentIsAnError ==
    (/\ called.some
     /\ Len(called.v.args) < arity(called.v.shape)
     /\ Mismatches(called.v.shape, called.v.args) = {}) =>
        /\ called.v.out.result =
               Err(ErrorFn(FnError("Impl",
                   MissingArgument(Len(called.v.args) + 1, called.v.shape))))
        /\ called.v.out.host_calls = <<>>

\* C5: a describe-wrapped function called with more arguments than its arity
\* fails with a wrong-arity error and does not invoke the host function.
C5_SurplusArgumentsAreAnError ==
    (called.some /\ Len(called.v.args) > arity(called.v.shape)) =>
        /\ called.v.out.result.kind = "Err"
        /\ called.v.out.host_calls = <<>>

\* C6: a describe-wrapped function called with the right number of arguments,
\* of which the one at position i is the first not of its declared type, fails
\* with a type-mismatch error value that names i; it does not crash and does
\* not invoke the host function.
C6_TypeMismatchIsAnError ==
    (/\ called.some
     /\ Len(called.v.args) = arity(called.v.shape)
     /\ Mismatches(called.v.shape, called.v.args) # {}) =>
        /\ called.v.out.result.kind = "Err"
        /\ called.v.out.result.error.index = Min(Mismatches(called.v.shape, called.v.args))
        /\ called.v.out.host_calls = <<>>

(***************************************************************************)
(* Iteration: a term is built and iterated.                                *)
(***************************************************************************)
IterFunctions ==
    {fn_hmac256_new_key, fn_hmac256, fn_empty_bytes_vec, fn_client_extensions_new,
     fn_client_extensions_append, fn_signature_algorithm_extension,
     fn_support_group_extension, fn_named_group_secp384r1}

IterTypes == {f.return_type : f \in IterFunctions}

RECURSIVE TermsOfType(_, _)
RECURSIVE SubtermVectors(_, _)

\* The vectors of well-typed sub-terms, of depth at most d, for argument types.
SubtermVectors(types, d) ==
    IF types = <<>> THEN {<<>>}
    ELSE {<<head>> \o rest :
             head \in TermsOfType(Head(types), d), rest \in SubtermVectors(Tail(types), d)}

\* The well-typed terms of a type, of depth at most d.
TermsOfType(typ, d) ==
    IF d = 0 THEN {}
    ELSE {Variable(typ, Query(Agent(0), 0))}
         \cup UNION {{Application(f, subterms) :
                         subterms \in SubtermVectors(f.argument_types, d - 1)} :
                     f \in {g \in IterFunctions : g.return_type = typ}}

IterTerms == UNION {TermsOfType(typ, MaxIterDepth) : typ \in IterTypes}

InitIter == iterated = None /\ IdleEval /\ IdleDyn /\ IdleZoo /\ IdleRest

Iterate(term) ==
    /\ iterated' = Some([term |-> term, yielded |-> into_iter(term)])
    /\ UNCHANGED <<evalVars, dynVars, zooVars, restVars>>

NextIter == \E term \in IterTerms : Iterate(term)

SpecIter == InitIter /\ [][NextIter]_vars

(***************************************************************************)
(* Properties of the iterator.                                             *)
(***************************************************************************)
RECURSIVE Positions(_)
Positions(t) ==
    {<<>>} \cup
    (IF t.kind = "Variable" THEN {}
     ELSE UNION {{<<i>> \o p : p \in Positions(t.subterms[i])} :
                    i \in 1..Len(t.subterms)})

RECURSIVE At(_, _)
At(t, p) == IF p = <<>> THEN t ELSE At(t.subterms[Head(p)], Tail(p))

ProperPrefix(p, q) == Len(p) < Len(q) /\ SubSeq(q, 1, Len(p)) = p

\* p comes before q in post-order: p is below q, or p is in a sub-tree to the
\* left of the one q is in.
PostOrderBefore(p, q) ==
    \/ ProperPrefix(q, p)
    \/ \E k \in 1..Len(p) :
          /\ k <= Len(q)
          /\ SubSeq(p, 1, k - 1) = SubSeq(q, 1, k - 1)
          /\ p[k] < q[k]

\* C7: iterating a term t yields exactly t.size() nodes, each node of the tree
\* exactly once, in post-order: every sub-term before its parent, siblings left
\* to right, the root last.
C7_PostOrder ==
    iterated.some =>
        LET t == iterated.v.term
            v == iterated.v.yielded
        IN  /\ Len(v) = size(t)
            /\ {v[i].path : i \in 1..Len(v)} = Positions(t)
            /\ \A i \in 1..Len(v) : v[i].term = At(t, v[i].path)
            /\ \A i, j \in 1..Len(v) : i < j => PostOrderBefore(v[i].path, v[j].path)
            /\ v[Len(v)].path = <<>>

\* C7 witness: a term with an application below an application, both with two
\* sub-terms, was iterated.
C7_Witness ==
    /\ iterated.some
    /\ \E p \in Positions(iterated.v.term) :
          /\ p # <<>>
          /\ At(iterated.v.term, p).kind = "Application"
          /\ Len(At(iterated.v.term, p).subterms) = 2
    /\ Len(iterated.v.term.subterms) = 2
    /\ Len(iterated.v.yielded) >= 5

(***************************************************************************)
(* The term zoo.                                                           *)
(*                                                                         *)
(* The rng is a cyclic tape of raw draws, fixed by the seed, and a         *)
(* position on it; below(n) reduces the next raw draw modulo n.            *)
(***************************************************************************)
MAX_DEPTH == 8
MAX_TRIES == 100

Rand(tape, pos) == [tape |-> tape, pos |-> pos]

below(r, n) ==
    [value |-> r.tape[r.pos + 1] % n,
     rand  |-> Rand(r.tape, (r.pos + 1) % Len(r.tape))]

\* Choosable::choose: nothing of an empty vector, else the element at below(len).
choose(possibilities, r) ==
    IF possibilities = <<>> THEN [item |-> None, rand |-> r]
    ELSE [item |-> Some(possibilities[below(r, Len(possibilities)).value + 1]),
          rand |-> below(r, Len(possibilities)).rand]

\* Signature::functions_by_typ: the definitions returning a type, in the order
\* of the signature; no entry for a type that no function returns.
functions_by_typ(sig, typ) ==
    LET Returns(f) == f.return_type = typ
    IN  IF Filter(sig, Returns) = <<>> THEN None ELSE Some(Filter(sig, Returns))

RECURSIVE generate_term(_, _, _, _)
RECURSIVE generate_subterms(_, _, _, _, _, _)
RECURSIVE generate_subterms_any_type(_, _, _, _, _, _)

Abandoned(r) == [ok |-> FALSE, subterms |-> <<>>, rand |-> r]

\* Mutant of generate_subterms: the sub-term's symbol is drawn among all the
\* functions of the signature, whatever they return.
generate_subterms_any_type(sig, required_types, i, depth, r, subterms) ==
    IF i > Len(required_types) THEN [ok |-> TRUE, subterms |-> subterms, rand |-> r]
    ELSE LET possibility == choose(sig, r)
             subterm == generate_term(sig, possibility.item.v, depth - 1, possibility.rand)
         IN  IF subterm.term.some
             THEN generate_subterms_any_type(sig, required_types, i + 1, depth,
                                             subterm.rand, Append(subterms, subterm.term.v))
             ELSE Abandoned(subterm.rand)

\* The loop of generate_term over the required types, from the i-th on.
generate_subterms(sig, required_types, i, depth, r, subterms) ==
    IF i > Len(required_types) THEN [ok |-> TRUE, subterms |-> subterms, rand |-> r]
    ELSE LET possibilities == functions_by_typ(sig, required_types[i])
         IN  IF ~possibilities.some THEN Abandoned(r)      \* Type not available
             ELSE LET possibility == choose(possibilities.v, r)
                  IN  IF ~possibility.item.some
                      THEN Abandoned(possibility.rand)     \* No possibilities available
                      ELSE LET subterm == generate_term(sig, possibility.item.v,
                                                        depth - 1, possibility.rand)
                           IN  IF subterm.term.some
                               THEN generate_subterms(sig, required_types, i + 1, depth,
                                                      subterm.rand,
                                                      Append(subterms, subterm.term.v))
                               ELSE Abandoned(subterm.rand) \* Max depth reached

\* Mutant of generate_term: at depth 0 a nullary symbol is still accepted.
generate_term_one_deeper(sig, shape, depth, r) ==
    IF depth = 0
    THEN [term |-> IF arity(shape) = 0 THEN Some(Application(shape, <<>>)) ELSE None,
          rand |-> r]
    ELSE LET sub == generate_subterms(sig, shape.argument_types, 1, depth, r, <<>>)
         IN  [term |-> IF sub.ok THEN Some(Application(shape, sub.subterms)) ELSE None,
              rand |-> sub.rand]

generate_term(sig, shape, depth, r) ==
    IF depth = 0 THEN [term |-> None, rand |-> r]
    ELSE LET sub == generate_subterms(sig, shape.argument_types, 1, depth, r, <<>>)
         IN  [term |-> IF sub.ok THEN Some(Application(shape, sub.subterms)) ELSE None,
              rand |-> sub.rand]

(***************************************************************************)
(* TermZoo::generate as a state machine: the filter_map over the functions *)
(* of the signature, in order, and for each the loop of up to MAX_TRIES    *)
(* attempts, one attempt per step.                                         *)
(***************************************************************************)
SigABC  == <<fn_a, fn_b, fn_c>>
SigHmac == <<fn_hmac256_new_key, fn_hmac256, fn_empty_bytes_vec>>
SigExt  == <<fn_client_extensions_append, fn_client_extensions_new,
             fn_support_group_extension, fn_signature_algorithm_extension,
             fn_named_group_secp384r1>>
SigEncrypt == <<fn_finished, fn_encrypt12, fn_seq_0, fn_seq_1>>
SigPartial == <<fn_seq_0, fn_encrypt12, fn_renegotiation_info_extension>>

ZooSignatures == {SigABC, SigHmac, SigExt, SigEncrypt, SigPartial}

Tapes == [1..TapeLen -> 0..(RandRange - 1)]

InitZoo ==
    /\ signature \in ZooSignatures
    /\ rand \in {Rand(tape, 0) : tape \in Tapes}
    /\ def_index = 0
    /\ counter = MAX_TRIES
    /\ terms = <<>>
    /\ seed = rand
    /\ first_run = None
    /\ IdleEval /\ IdleDyn /\ IdleIter /\ IdleRest

\* Mutant of Attempt: the loop does not break on a successful attempt.
Attempt_no_break ==
    /\ def_index < Len(signature)
    /\ counter # 0
    /\ LET attempt == generate_term(signature, signature[def_index + 1], MAX_DEPTH, rand)
       IN  /\ rand' = attempt.rand
           /\ terms' = IF attempt.term.some THEN Append(terms, attempt.term.v) ELSE terms
           /\ counter' = counter - 1
           /\ def_index' = def_index
    /\ UNCHANGED <<signature, seed, first_run>>
    /\ UNCHANGED <<evalVars, dynVars, iterVars, restVars>>

\* Mutant of Attempt: the attempt draws from an rng of the thread, seeded from
\* entropy, instead of the caller's rand.
Attempt_thread_rng ==
    /\ def_index < Len(signature)
    /\ counter # 0
    /\ \E pos \in 0..(TapeLen - 1) :
         LET attempt == generate_term(signature, signature[def_index + 1], MAX_DEPTH,
                                      Rand(rand.tape, pos))
         IN  /\ rand' = rand
             /\ \/ /\ attempt.term.some
                   /\ terms' = Append(terms, attempt.term.v)
                   /\ def_index' = def_index + 1
                   /\ counter' = MAX_TRIES
                \/ /\ ~attempt.term.some
                   /\ terms' = terms
                   /\ def_index' = def_index
                   /\ counter' = counter - 1
    /\ UNCHANGED <<signature, seed, first_run>>
    /\ UNCHANGED <<evalVars, dynVars, iterVars, restVars>>

\* Mutant of Attempt: counter is not decremented.
Attempt_no_countdown ==
    /\ def_index < Len(signature)
    /\ counter # 0
    /\ LET attempt == generate_term(signature, signature[def_index + 1], MAX_DEPTH, rand)
       IN  /\ rand' = attempt.rand
           /\ \/ /\ attempt.term.some
                 /\ terms' = Append(terms, attempt.term.v)
                 /\ def_index' = def_index + 1
                 /\ counter' = MAX_TRIES
              \/ /\ ~attempt.term.some
                 /\ terms' = terms
                 /\ def_index' = def_index
                 /\ counter' = counter
    /\ UNCHANGED <<signature, seed, first_run>>
    /\ UNCHANGED <<evalVars, dynVars, iterVars, restVars>>

\* One turn of the loop with counter # 0: counter -= 1, then generate_term;
\* Some(term) breaks the loop and the term is collected, None loops.
Attempt ==
    /\ def_index < Len(signature)
    /\ counter # 0
    /\ LET attempt == generate_term(signature, signature[def_index + 1], MAX_DEPTH, rand)
       IN  /\ rand' = attempt.rand
           /\ \/ /\ attempt.term.some
                 /\ terms' = Append(terms, attempt.term.v)
                 /\ def_index' = def_index + 1
                 /\ counter' = MAX_TRIES
              \/ /\ ~attempt.term.some
                 /\ terms' = terms
                 /\ def_index' = def_index
                 /\ counter' = counter - 1
    /\ UNCHANGED <<signature, seed, first_run>>
    /\ UNCHANGED <<evalVars, dynVars, iterVars, restVars>>

\* The turn of the loop with counter = 0: break None, no term for the symbol.
GiveUp ==
    /\ def_index < Len(signature)
    /\ counter = 0
    /\ def_index' = def_index + 1
    /\ counter' = MAX_TRIES
    /\ UNCHANGED <<signature, rand, terms, seed, first_run>>
    /\ UNCHANGED <<evalVars, dynVars, iterVars, restVars>>

NextZoo == Attempt \/ GiveUp

SpecZoo == InitZoo /\ [][NextZoo]_vars

\* A signature whose first symbol takes an argument of a type that only the
\* symbol itself constructs.
SigRecursive == <<fn_client_extensions_append, fn_signature_algorithm_extension>>

\* The tapes of an rng whose draws repeat with period SeedLen.
SeedLen == 3

SeededTapes ==
    {[i \in 1..TapeLen |-> draws[((i - 1) % SeedLen) + 1]] :
        draws \in [1..SeedLen -> 0..(RandRange - 1)]}

InitZooAny ==
    /\ signature \in ZooSignatures \cup {SigRecursive}
    /\ rand \in {Rand(tape, 0) : tape \in SeededTapes}
    /\ def_index = 0
    /\ counter = MAX_TRIES
    /\ terms = <<>>
    /\ seed = rand
    /\ first_run = None
    /\ IdleEval /\ IdleDyn /\ IdleIter /\ IdleRest

\* TermZoo::generate runs on: as long as the filter_map is not over, a turn of
\* the loop can be taken, and is taken.  (Weak fairness of NextZoo, with its
\* enabling condition written out: a turn is possible exactly when def_index
\* is below the number of functions.)
ZooRuns == []<>(def_index = Len(signature)) \/ []<><<NextZoo>>_vars

SpecZooRuns == InitZooAny /\ [][NextZoo]_vars /\ ZooRuns

\* The filter_map is over: what TermZoo::generate returns, with the rng state
\* it leaves behind in the caller's rand.
Generated == [terms |-> terms, rand |-> rand]

\* TermZoo::generate returned and the caller calls it once more over the same
\* signature with an rng built from the same seed.
GenerateAgain ==
    /\ def_index = Len(signature)
    /\ first_run = None
    /\ first_run' = Some(Generated)
    /\ rand' = seed
    /\ def_index' = 0
    /\ counter' = MAX_TRIES
    /\ terms' = <<>>
    /\ UNCHANGED <<signature, seed>>
    /\ UNCHANGED <<evalVars, dynVars, iterVars, restVars>>

NextZooTwice == Attempt \/ GiveUp \/ GenerateAgain

SpecZooTwice == InitZoo /\ [][NextZooTwice]_vars

(***************************************************************************)
(* Properties of the term zoo.                                             *)
(***************************************************************************)
RECURSIVE depth(_)
depth(t) ==
    IF t.kind = "Variable" \/ t.subterms = <<>> THEN 1
    ELSE 1 + Max({depth(t.subterms[i]) : i \in 1..Len(t.subterms)})

Nodes(t) == {At(t, p) : p \in Positions(t)}

IndexOf(sig, f) == CHOOSE k \in 1..Len(sig) : sig[k] = f

\* C8: every Application node at every level of every term of the zoo is
\* closed and well typed: no Variable below it, as many sub-terms as its shape
\* has arguments, the i-th sub-term of the shape's i-th argument type.
C8_ClosedWellTyped ==
    \A i \in 1..Len(terms) : \A n \in Nodes(terms[i]) :
        /\ n.kind = "Application"
        /\ \E k \in 1..Len(signature) : signature[k] = n.func
        /\ Len(n.subterms) = arity(n.func)
        /\ \A k \in 1..Len(n.subterms) :
               get_type_shape(n.subterms[k]) = n.func.argument_types[k]

\* C8 witness: the zoo holds a term of depth 3 or more whose root has two
\* sub-terms.
C8_Witness ==
    \E i \in 1..Len(terms) : depth(terms[i]) >= 3 /\ Len(terms[i].subterms) = 2

\* C9: every term of the zoo has depth at most MAX_DEPTH; generate_term with
\* depth 0 returns None; a node at depth exactly MAX_DEPTH is nullary.
C9_DepthBound ==
    /\ \A i \in 1..Len(terms) :
          /\ depth(terms[i]) <= MAX_DEPTH
          /\ \A p \in Positions(terms[i]) :
                 Len(p) = MAX_DEPTH - 1 => At(terms[i], p).subterms = <<>>
    /\ \A k \in 1..Len(signature) :
          generate_term(signature, signature[k], 0, rand).term = None

\* C9 witness: the zoo holds a term of depth exactly MAX_DEPTH.
C9_Witness == \E i \in 1..Len(terms) : depth(terms[i]) = MAX_DEPTH

\* C22: for each function symbol the loop of TermZoo::generate makes at most
\* MAX_TRIES attempts: counter starts at MAX_TRIES for the symbol, never leaves
\* 0..MAX_TRIES, and every turn that stays with the symbol takes one off; a
\* successful attempt ends the loop for the symbol at once, with its term
\* collected; and generate terminates for every signature: the filter_map
\* gets to the end of signature.functions and nothing is done after that.
C22_BoundedTries ==
    /\ [](counter \in 0..MAX_TRIES /\ def_index \in 0..Len(signature))
    /\ [][/\ def_index < Len(signature)
          /\ def_index' = def_index => (counter' = counter - 1 /\ terms' = terms)
          /\ def_index' # def_index =>
                 (def_index' = def_index + 1 /\ counter' = MAX_TRIES)
          /\ terms' # terms =>
                 /\ def_index' = def_index + 1
                 /\ terms' = Append(terms, terms'[Len(terms')])
                 /\ terms'[Len(terms')].func = signature[def_index + 1]]_vars
    /\ <>[](def_index = Len(signature))

\* C22 witness: the symbol whose argument type only the symbol itself
\* constructs had its MAX_TRIES attempts, none gave a term, and the loop is
\* about to give the symbol up.
C22_Witness ==
    /\ signature = SigRecursive
    /\ def_index = 0
    /\ counter = 0
    /\ terms = <<>>
    /\ rand # seed

NullaryOnly(sig) ==
    \A k \in 1..Len(sig) : \A a \in 1..arity(sig[k]) :
        LET constructors == functions_by_typ(sig, sig[k].argument_types[a])
        IN  /\ constructors.some
            /\ \A c \in 1..Len(constructors.v) : arity(constructors.v[c]) = 0

\* C10: the zoo holds at most one term per function symbol of the signature,
\* each rooted at that symbol, in signature order; for a signature whose
\* argument types have only nullary constructors it holds exactly one term
\* per symbol, whatever the seed.
C10_OnePerSymbol ==
    /\ \A i \in 1..Len(terms) :
          /\ terms[i].kind = "Application"
          /\ \E k \in 1..def_index : signature[k] = terms[i].func
    /\ \A i, j \in 1..Len(terms) :
          i < j => IndexOf(signature, terms[i].func) < IndexOf(signature, terms[j].func)
    /\ NullaryOnly(signature) =>
          /\ Len(terms) = def_index
          /\ \A i \in 1..Len(terms) : terms[i].func = signature[i]

\* C10 witness: generation is over for a signature with only nullary
\* constructors of argument types and a function with arguments, and the zoo
\* holds a term for each of its symbols.
C10_Witness ==
    /\ signature # <<>>
    /\ def_index = Len(signature)
    /\ NullaryOnly(signature)
    /\ Len(terms) = Len(signature)
    /\ \E i \in 1..Len(terms) : terms[i].subterms # <<>>

(***************************************************************************)
(* The trace engine and the fuzzing harness.                               *)
(*                                                                         *)
(* A trace is its declared steps together with what its environment (the   *)
(* PUT, its streams, the claims the PUT emits) does at each step.          *)
(* Trace::execute follows the trace engine of the specification; the       *)
(* harness is puffin/src/fuzzer/harness.rs.                                *)
(***************************************************************************)
ErrorPut(msg)           == [variant |-> "Put", msg |-> msg]
ErrorIO(msg)            == [variant |-> "IO", msg |-> msg]
ErrorAgent(msg)         == [variant |-> "Agent", msg |-> msg]
ErrorStream(msg)        == [variant |-> "Stream", msg |-> msg]
ErrorExtraction         == [variant |-> "Extraction"]
ErrorSecurityClaim(msg) == [variant |-> "SecurityClaim", msg |-> msg]

\* The error of a failure of the environment, by kind.
EnvError(fails) ==
    CASE fails = "IO"         -> ErrorIO([text |-> "stream io"])
      [] fails = "Agent"      -> ErrorAgent([text |-> "agent closed"])
      [] fails = "Stream"     -> ErrorStream([text |-> "deframer"])
      [] fails = "Extraction" -> ErrorExtraction

\* Steps.  fails: the failure of the environment at the step, or "ok";
\* drained: what the agent's claim queue holds after the step.
InputStep(recipe, fails, drained) ==
    [action |-> "Input", recipe |-> Some(recipe), items |-> <<>>,
     fails |-> fails, drained |-> drained]
OutputStep(items, fails, drained) ==
    [action |-> "Output", recipe |-> None, items |-> items,
     fails |-> fails, drained |-> drained]

Trace(put_fails, steps) == [put_fails |-> put_fails, steps |-> steps]

\* The claims an agent's queue holds, by what the step's environment says.
drain(drained, claim_store) ==
    CASE drained = "none" -> <<>>
      [] drained = "benign" ->
           <<[agent_name |-> 0, violation |-> FALSE,
              data |-> ClaimData("Vec<u8>", Len(claim_store) + 1)]>>
      [] drained = "violating" ->
           <<[agent_name |-> 0, violation |-> TRUE,
              data |-> ClaimData("Vec<u8>", Len(claim_store) + 1)]>>

\* The security violation policy, eval(claims) -> Option<violation message>:
\* here the policy that reports the first claim marked as a violation.
policy(claim_store) ==
    IF \E i \in 1..Len(claim_store) : claim_store[i].violation
    THEN Some([text |-> "security violation",
               claim |-> Min({i \in 1..Len(claim_store) : claim_store[i].violation})])
    ELSE None

\* extract_knowledge of the messages of an Output step: the items, in the
\* order they arrive, appended to the knowledge base.
extract_knowledge(items, base) ==
    [i \in 1..Len(items) |->
        [agent_name |-> 0, data |-> Data(items[i], Len(base) + i)]]

\* After every step: the agent's claim queue is drained into the claim store
\* and the policy is evaluated over the accumulated claims.
after_step(step, context) ==
    LET claim_store == context.claims \o drain(step.drained, context.claims)
        violation == policy(claim_store)
    IN  [result |-> IF violation.some THEN Err(ErrorSecurityClaim(violation.v))
                    ELSE Ok(<<>>),
         knowledge |-> context.knowledge,
         claims |-> claim_store]

\* Mutant of execute_step: the items of an Output step are put in front of the
\* knowledge base and errors of the step are logged and dropped.
execute_step_lenient(step, context) ==
    LET base == extract_knowledge(step.items, context.knowledge) \o context.knowledge
    IN  after_step(step, Context(IF step.action = "Output" THEN base
                                 ELSE context.knowledge, context.claims))

\* One step of a trace.  Input: evaluate the recipe, then encode and write to
\* the agent's stream.  Output: pump the stream through the deframer, keep
\* the messages as knowledge, extract.  Any error ends the step at once.
execute_step(step, context) ==
    LET failed(e) == [result |-> Err(e), knowledge |-> context.knowledge,
                      claims |-> context.claims]
    IN  IF step.action = "Input"
        THEN LET evaluated_term == evaluate(step.recipe.v, context).result
             IN  IF evaluated_term.kind = "Err" THEN failed(evaluated_term.error)
                 ELSE IF step.fails # "ok" THEN failed(EnvError(step.fails))
                 ELSE after_step(step, context)
        ELSE IF step.fails = "Stream" THEN failed(EnvError(step.fails))
        ELSE LET base == context.knowledge \o
                             extract_knowledge(step.items, context.knowledge)
             IN  IF step.fails # "ok"
                 THEN [result |-> Err(EnvError(step.fails)), knowledge |-> base,
                       claims |-> context.claims]
                 ELSE after_step(step, Context(base, context.claims))

MaxSteps == 2

HarnessRecipes ==
    {Variable("Vec<u8>", Query(Agent(0), 0)),
     Application(fn_hmac256,
                 <<Application(fn_hmac256_new_key, <<>>),
                   Variable("Vec<u8>", Query(Agent(0), 0))>>)}

Drained == {"none", "benign", "violating"}

Steps ==
    {InputStep(recipe, fails, drained) :
        recipe \in HarnessRecipes, fails \in {"ok", "IO", "Agent"}, drained \in Drained}
    \cup
    {OutputStep(items, fails, drained) :
        items \in {<<>>, <<"Vec<u8>", "HmacKey">>},
        fails \in {"ok", "Stream", "Extraction"}, drained \in Drained}

Traces ==
    {Trace(put_fails, steps) :
        put_fails \in BOOLEAN,
        steps \in UNION {[1..n -> Steps] : n \in 0..MaxSteps}}

ErrorCounters == {"FN_ERROR", "TERM", "PUT", "IO", "AGENT", "STREAM", "EXTRACTION"}

\* The harness is called on a trace; the counters are those of the process.
InitHarness ==
    /\ trace \in {Some(t) : t \in Traces}
    /\ pc = "harness"
    /\ step_index = 0
    /\ executed = <<>>
    /\ returned = None
    /\ stats = [errors |-> [c \in ErrorCounters |-> 0],
                TRACE_LENGTH |-> <<>>, TERM_SIZE |-> <<>>]
    /\ exit_kind = None
    /\ agents = {}
    /\ knowledge = <<>> /\ claims = <<>> /\ evaluated = None
    /\ failing \in {{}, {"fn_hmac256"}}
    /\ IdleDyn /\ IdleIter /\ IdleZoo /\ IdleAnchor /\ IdleSerde /\ IdlePretty /\ IdleTls

RECURSIVE recipe_sizes(_)
recipe_sizes(steps) ==
    IF steps = <<>> THEN <<>>
    ELSE (IF Head(steps).action = "Input" THEN <<size(Head(steps).recipe.v)>> ELSE <<>>)
         \o recipe_sizes(Tail(steps))

harnessFrame ==
    UNCHANGED <<failing, evaluated, dynVars, iterVars, zooVars,
                anchorVars, serdeVars, prettyVars, tlsVars>>

\* Mutant of HarnessEnter: the context is one of the process and is kept from
\* one call to the next.
HarnessEnter_shared_context ==
    /\ pc = "harness"
    /\ stats' = [stats EXCEPT
                    !.TRACE_LENGTH = Append(@, Len(trace.v.steps)),
                    !.TERM_SIZE = @ \o recipe_sizes(trace.v.steps)]
    /\ pc' = "execute"
    /\ UNCHANGED <<trace, step_index, executed, returned, exit_kind, agents,
                   knowledge, claims>>
    /\ harnessFrame

\* harness, lines 31-43: a fresh context, and the statistics of the trace.
HarnessEnter ==
    /\ pc = "harness"
    /\ knowledge' = <<>>
    /\ claims' = <<>>
    /\ stats' = [stats EXCEPT
                    !.TRACE_LENGTH = Append(@, Len(trace.v.steps)),
                    !.TERM_SIZE = @ \o recipe_sizes(trace.v.steps)]
    /\ agents' = {}
    /\ pc' = "execute"
    /\ UNCHANGED <<trace, step_index, executed, returned, exit_kind>>
    /\ harnessFrame

\* Trace::execute: the agents are instantiated through the PUT registry.
Instantiate ==
    /\ pc = "execute"
    /\ IF trace.v.put_fails
       THEN returned' = Some(Err(ErrorPut([text |-> "put factory"]))) /\ pc' = "returned"
       ELSE IF trace.v.steps = <<>>
            THEN returned' = Some(Ok(<<>>)) /\ pc' = "returned"
            ELSE returned' = returned /\ pc' = "steps"
    /\ agents' = IF trace.v.put_fails THEN agents ELSE agents \cup {0}
    /\ UNCHANGED <<trace, step_index, executed, stats, exit_kind, knowledge, claims>>
    /\ harnessFrame

\* Trace::execute: the next step of the trace; an error of the step is
\* returned at once, and so is Ok(()) after the last step.
ExecuteStep ==
    /\ pc = "steps"
    /\ step_index < Len(trace.v.steps)
    /\ LET out == execute_step(trace.v.steps[step_index + 1], Context(knowledge, claims))
       IN  /\ executed' = Append(executed, step_index + 1)
           /\ knowledge' = out.knowledge
           /\ claims' = out.claims
           /\ IF out.result.kind = "Err"
              THEN /\ returned' = Some(out.result)
                   /\ pc' = "returned"
                   /\ step_index' = step_index
              ELSE /\ step_index' = step_index + 1
                   /\ IF step_index + 1 = Len(trace.v.steps)
                      THEN returned' = Some(Ok(<<>>)) /\ pc' = "returned"
                      ELSE returned' = returned /\ pc' = pc
    /\ UNCHANGED <<trace, stats, exit_kind, agents>>
    /\ harnessFrame

\* The counter the harness increments for an error.
counter_of(err) ==
    CASE err.variant = "Fn"         -> "FN_ERROR"
      [] err.variant = "Term"       -> "TERM"
      [] err.variant = "Put"        -> "PUT"
      [] err.variant = "IO"         -> "IO"
      [] err.variant = "Agent"      -> "AGENT"
      [] err.variant = "Stream"     -> "STREAM"
      [] err.variant = "Extraction" -> "EXTRACTION"

\* Mutant of HarnessReturn: SecurityClaim is counted and logged like the
\* other errors, under the counter of Term.
HarnessReturn_no_abort ==
    /\ pc = "returned"
    /\ stats' = IF returned.v.kind = "Err"
                THEN [stats EXCEPT !.errors[IF returned.v.error.variant = "SecurityClaim"
                                            THEN "TERM"
                                            ELSE counter_of(returned.v.error)] = @ + 1]
                ELSE stats
    /\ exit_kind' = Some("Ok")
    /\ pc' = "done"
    /\ agents' = {}
    /\ UNCHANGED <<trace, step_index, executed, returned, knowledge, claims>>
    /\ harnessFrame

\* Mutant of HarnessReturn: every error but SecurityClaim goes to FN_ERROR.
HarnessReturn_one_counter ==
    /\ pc = "returned"
    /\ IF returned.v.kind = "Err" /\ returned.v.error.variant = "SecurityClaim"
       THEN pc' = "aborted" /\ UNCHANGED <<stats, exit_kind, agents>>
       ELSE /\ stats' = IF returned.v.kind = "Err"
                        THEN [stats EXCEPT !.errors["FN_ERROR"] = @ + 1]
                        ELSE stats
            /\ exit_kind' = Some("Ok")
            /\ agents' = {}
            /\ pc' = "done"
    /\ UNCHANGED <<trace, step_index, executed, returned, knowledge, claims>>
    /\ harnessFrame

\* harness, lines 45-63: the match on the error Trace::execute returned.
\* SecurityClaim aborts the process; another error increments its counter;
\* then, and on success, ExitKind::Ok is returned.  Returning drops ctx, and
\* with it the agents; std::process::abort runs no destructor.
HarnessReturn ==
    /\ pc = "returned"
    /\ IF returned.v.kind = "Err" /\ returned.v.error.variant = "SecurityClaim"
       THEN pc' = "aborted" /\ UNCHANGED <<stats, exit_kind, agents>>
       ELSE /\ stats' = IF returned.v.kind = "Err"
                        THEN [stats EXCEPT !.errors[counter_of(returned.v.error)] = @ + 1]
                        ELSE stats
            /\ exit_kind' = Some("Ok")
            /\ agents' = {}
            /\ pc' = "done"
    /\ UNCHANGED <<trace, step_index, executed, returned, knowledge, claims>>
    /\ harnessFrame

NextHarness == HarnessEnter \/ Instantiate \/ ExecuteStep \/ HarnessReturn

SpecHarness == InitHarness /\ [][NextHarness]_vars

\* The fuzzer calls the harness once per input, in one process, for as long
\* as the process lives.
MaxRuns == 2

\* The inputs of a fuzzing campaign: traces that succeed, that fail part-way
\* after gathering knowledge and claims, that fail at once, and a trace that
\* reads the knowledge base in its first step.
Corpus ==
    LET variable == Variable("Vec<u8>", Query(Agent(0), 0))
        hmac == Application(fn_hmac256,
                            <<Application(fn_hmac256_new_key, <<>>), variable>>)
        messages == <<"Vec<u8>", "HmacKey">>
    IN  {Trace(FALSE, <<OutputStep(messages, "ok", "benign")>>),
         Trace(FALSE, <<OutputStep(messages, "ok", "none"),
                        InputStep(hmac, "IO", "benign")>>),
         Trace(FALSE, <<OutputStep(messages, "Extraction", "none")>>),
         Trace(FALSE, <<InputStep(variable, "ok", "none")>>),
         Trace(FALSE, <<InputStep(variable, "ok", "none"),
                        OutputStep(<<"Vec<u8>">>, "ok", "benign")>>),
         Trace(FALSE, <<OutputStep(<<>>, "ok", "violating")>>),
         Trace(TRUE, <<>>)}

InitHarnessCampaign ==
    /\ trace \in {Some(t) : t \in Corpus}
    /\ pc = "harness"
    /\ step_index = 0
    /\ executed = <<>>
    /\ returned = None
    /\ stats = [errors |-> [c \in ErrorCounters |-> 0],
                TRACE_LENGTH |-> <<>>, TERM_SIZE |-> <<>>]
    /\ exit_kind = None
    /\ agents = {}
    /\ knowledge = <<>> /\ claims = <<>> /\ evaluated = None
    /\ failing \in {{}, {"fn_hmac256"}}
    /\ IdleDyn /\ IdleIter /\ IdleZoo /\ IdleAnchor /\ IdleSerde /\ IdlePretty /\ IdleTls

\* The executor calls the harness on the next input.  What the memory of the
\* last call held is left as it was.
HarnessAgain ==
    /\ pc = "done"
    /\ Len(stats.TRACE_LENGTH) < MaxRuns
    /\ trace' \in {Some(t) : t \in Corpus}
    /\ pc' = "harness"
    /\ step_index' = 0
    /\ executed' = <<>>
    /\ returned' = None
    /\ exit_kind' = None
    /\ UNCHANGED <<stats, agents, knowledge, claims>>
    /\ harnessFrame

NextHarnessCampaign == NextHarness \/ HarnessAgain

SpecHarnessCampaign == InitHarnessCampaign /\ [][NextHarnessCampaign]_vars

(***************************************************************************)
(* Properties of the trace engine and the harness.                         *)
(***************************************************************************)
IsErr(r) == r.some /\ r.v.kind = "Err"
IsErrOf(r, variants) == IsErr(r) /\ r.v.error.variant \in variants

\* C12: when the policy reports a violation over the claims accumulated after
\* a step, Trace::execute fails with SecurityClaim right after that step, no
\* later step is executed, and the next thing the harness does is abort the
\* process: no counter changes and no exit kind is ever returned.
C12_SecurityClaimIsFatal ==
    /\ [](IsErrOf(returned, {"SecurityClaim"}) =>
             pc \in {"returned", "aborted"} /\ exit_kind = None)
    /\ [][/\ (executed' # executed /\ policy(claims').some) =>
                 IsErrOf(returned', {"SecurityClaim"})
          /\ IsErrOf(returned, {"SecurityClaim"}) =>
                 /\ executed' = executed
                 /\ pc' = "aborted"
                 /\ exit_kind' = None
                 /\ stats' = stats]_vars

\* C12 witness: the first step of a longer trace drove the policy to report a
\* violation, and the process was aborted with the later step not executed.
C12_Witness ==
    /\ pc = "aborted"
    /\ executed = <<1>>
    /\ Len(trace.v.steps) > 1
    /\ policy(claims).some

NonFatal == {"Fn", "Term", "Put", "IO", "Agent", "Stream", "Extraction"}

CounterNamed(variant) ==
    CASE variant = "Fn" -> "FN_ERROR"   [] variant = "Term" -> "TERM"
      [] variant = "Put" -> "PUT"       [] variant = "IO" -> "IO"
      [] variant = "Agent" -> "AGENT"   [] variant = "Stream" -> "STREAM"
      [] variant = "Extraction" -> "EXTRACTION"

\* C13: for each non-fatal error kind Trace::execute returns, the harness
\* increments the counter of that kind and no other error counter, does not
\* abort and returns ExitKind::Ok; on success, and at every other step, the
\* error counters stay as they are.
C13_OneCounterPerKind ==
    [][/\ (pc = "returned" /\ IsErrOf(returned, NonFatal)) =>
              /\ stats'.errors =
                    [stats.errors EXCEPT ![CounterNamed(returned.v.error.variant)] = @ + 1]
              /\ pc' = "done"
              /\ exit_kind' = Some("Ok")
       /\ (pc = "returned" /\ ~IsErr(returned)) =>
              /\ stats'.errors = stats.errors
              /\ pc' = "done"
              /\ exit_kind' = Some("Ok")
       /\ pc # "returned" => stats'.errors = stats.errors]_vars

\* C13 witness: the harness returned ExitKind::Ok after the evaluation of a
\* recipe failed in a host function, with FN_ERROR incremented.
C13_Witness ==
    /\ pc = "done"
    /\ IsErrOf(returned, {"Fn"})
    /\ stats.errors["FN_ERROR"] = 1
    /\ exit_kind = Some("Ok")

\* The types of the knowledge items of a base, in its order.
KnowledgeTypes(base) == [i \in 1..Len(base) |-> base[i].data.typ]

\* C20: the steps of a trace are executed in declared order, each once: the
\* k-th step executed is the k-th declared, and only while Trace::execute has
\* not returned; the knowledge items of a step are appended behind those of
\* earlier steps in the order they arrive; a step that fails makes
\* Trace::execute return its error at once, so no later step is executed;
\* Ok is returned only after all the steps.
C20_DeclaredOrder ==
    /\ []((returned.some /\ ~IsErr(returned)) => Len(executed) = Len(trace.v.steps))
    /\ [][executed' # executed =>
             LET step == trace.v.steps[Len(executed) + 1]
             IN  /\ returned = None
                 /\ executed' = Append(executed, Len(executed) + 1)
                 /\ SubSeq(knowledge', 1, Len(knowledge)) = knowledge
                 /\ KnowledgeTypes(SubSeq(knowledge', Len(knowledge) + 1, Len(knowledge')))
                        \in {<<>>, step.items}
                 /\ step.fails # "ok" => IsErr(returned')
                 /\ (step.action = "Output" /\ step.fails # "ok") =>
                        IsErrOf(returned', {step.fails})
                 /\ (step.action = "Output" /\ step.fails # "Stream") =>
                        Len(knowledge') = Len(knowledge) + Len(step.items)
                 /\ IsErr(returned') =>
                        returned'.v.error.variant \in
                            {"Fn", "Term", "SecurityClaim", step.fails}]_vars

\* C20 witness: the first step of a longer trace put its messages in the
\* knowledge base and then failed; the error was returned to the harness with
\* the later step not executed.
C20_Witness ==
    /\ pc = "done"
    /\ IsErrOf(returned, {"Extraction"})
    /\ executed = <<1>>
    /\ Len(trace.v.steps) > 1
    /\ KnowledgeTypes(knowledge) = <<"Vec<u8>", "HmacKey">>

RECURSIVE execute_alone(_, _, _)
execute_alone(steps, i, context) ==
    IF i > Len(steps)
    THEN [result |-> Ok(<<>>), knowledge |-> context.knowledge,
          claims |-> context.claims]
    ELSE LET out == execute_step(steps[i], context)
         IN  IF out.result.kind = "Err" THEN out
             ELSE execute_alone(steps, i + 1, Context(out.knowledge, out.claims))

Alone(t) ==
    IF t.put_fails
    THEN [result |-> Err(ErrorPut([text |-> "put factory"])),
          knowledge |-> <<>>, claims |-> <<>>]
    ELSE execute_alone(t.steps, 1, Context(<<>>, <<>>))

\* C23: whatever traces the harness executed before, Trace::execute starts
\* on an empty context, and what it returns and the knowledge and claims it
\* leaves are those of the trace executed alone: nothing of an earlier trace
\* is visible.
C23_FreshContext ==
    /\ pc = "execute" => (knowledge = <<>> /\ claims = <<>>)
    /\ pc \in {"returned", "done", "aborted"} =>
           /\ returned = Some(Alone(trace.v).result)
           /\ knowledge = Alone(trace.v).knowledge
           /\ claims = Alone(trace.v).claims

\* C23 witness: a trace that left knowledge and claims was executed, and the
\* next trace, whose first step reads the knowledge base, found nothing.
C23_Witness ==
    /\ Len(stats.TRACE_LENGTH) = 2
    /\ stats.TERM_SIZE = <<1>>
    /\ pc = "done"
    /\ IsErrOf(returned, {"Term"})
    /\ executed = <<1>>
    /\ stats.errors["TERM"] = 1

(***************************************************************************)
(* The process-wide signature anchor (puffin/src/algebra/mod.rs): a        *)
(* OnceCell.  OnceCell::set fills an empty cell and returns Ok(()); on a   *)
(* full cell it leaves the content and returns Err(value).                 *)
(***************************************************************************)
MaxInstalls == 3

\* Mutant of once_cell_set: a cell that takes every value it is given.
once_cell_overwrite(cell, value) == [cell |-> Some(value), result |-> Ok(<<>>)]

once_cell_set(cell, value) ==
    IF cell = None THEN [cell |-> Some(value), result |-> Ok(<<>>)]
    ELSE [cell |-> cell, result |-> Err(value)]

anchorFrame ==
    UNCHANGED <<evalVars, dynVars, iterVars, zooVars, harnessVars, serdeVars, prettyVars, tlsVars>>

InitAnchor ==
    /\ CURRENT_SIGNATURE = None
    /\ installed = <<>>
    /\ IdleEval /\ IdleDyn /\ IdleIter /\ IdleZoo /\ IdleHarness /\ IdleSerde /\ IdlePretty /\ IdleTls

\* set_current_signature: CURRENT_SIGNATURE.set(signature); the Result of
\* set is dropped and the function returns ().
set_current_signature(sig) ==
    /\ Len(installed) < MaxInstalls
    /\ CURRENT_SIGNATURE' = once_cell_set(CURRENT_SIGNATURE, sig).cell
    /\ installed' = Append(installed, [op |-> "set_current_signature",
                                       signature |-> sig,
                                       returned |-> Ok(<<>>)])
    /\ anchorFrame

\* current_signature: CURRENT_SIGNATURE.get().expect(..).
current_signature ==
    /\ Len(installed) < MaxInstalls
    /\ installed' = Append(installed,
                           [op |-> "current_signature",
                            signature |-> <<>>,
                            returned |-> IF CURRENT_SIGNATURE.some
                                         THEN Ok(CURRENT_SIGNATURE.v)
                                         ELSE Panic([text |-> "current signature needs to be set"])])
    /\ UNCHANGED CURRENT_SIGNATURE
    /\ anchorFrame

NextAnchor ==
    \/ \E sig \in ZooSignatures : set_current_signature(sig)
    \/ current_signature

SpecAnchor == InitAnchor /\ [][NextAnchor]_vars

\* The set_current_signature calls made so far, in order.
SetCalls == SelectSeq(installed, LAMBDA c : c.op = "set_current_signature")

\* C14: a second set_current_signature call is reported as an error at install
\* time (its return is an error or the call panics), and the anchor keeps the
\* signature of the first call: neither overwritten nor silently ignored.
C14_SecondSetIsAnError ==
    /\ SetCalls # <<>> => CURRENT_SIGNATURE = Some(SetCalls[1].signature)
    /\ \A i \in 2..Len(SetCalls) : SetCalls[i].returned.kind \in {"Err", "Panic"}

\* C24: the anchor is install-once.  Every current_signature call made after
\* a set_current_signature call returns the signature of the first such call,
\* whatever set calls came in between; a current_signature call made before
\* any set panics with "current signature needs to be set".
C24_InstallOnce ==
    /\ SetCalls # <<>> => CURRENT_SIGNATURE = Some(SetCalls[1].signature)
    /\ \A i \in 1..Len(installed) :
          installed[i].op = "current_signature" =>
              LET earlier == SelectSeq(SubSeq(installed, 1, i - 1),
                                       LAMBDA c : c.op = "set_current_signature")
              IN  installed[i].returned =
                      IF earlier = <<>>
                      THEN Panic([text |-> "current signature needs to be set"])
                      ELSE Ok(earlier[1].signature)

\* C24 witness: two set calls with different signatures, and then
\* current_signature returned the first.
C24_Witness ==
    /\ Len(installed) = 3
    /\ installed[1].op = "set_current_signature"
    /\ installed[2].op = "set_current_signature"
    /\ installed[2].signature # installed[1].signature
    /\ installed[3].op = "current_signature"
    /\ installed[3].returned = Ok(installed[1].signature)

(***************************************************************************)
(* Persistence.  Term derives Serialize and Deserialize, and so does       *)
(* DynamicFunctionShape; the impls for Box<dyn DynamicFunction> and        *)
(* TypeShape are those of src/term/type_helper.rs.  An artifact is a value *)
(* of the serde data model: a string, a u64, a sequence, a struct.         *)
(*                                                                         *)
(* A function symbol is a shape with its dynamic function; a dynamic       *)
(* function is identified by the host function it wraps.                   *)
(***************************************************************************)
UnknownType == "UnknownType"

\* PartialEq for TypeShape: equality of the inner type ids.
type_shape_eq(a, b) == a = b

Function(shape, dynamic_function) == [shape |-> shape, dynamic_fn |-> dynamic_function]

\* The function symbol the signature holds for a described host function.
new_function(shape) == Function(shape, shape.name)

\* Mutant of serialize_dynamic_function: the name of the host function is
\* written, with deserialization left as it is.
serialize_dynamic_function_by_name(dynamic_function) == dynamic_function

serialize_dynamic_function(dynamic_function) == "dyn DynamicFunction"

deserialize_dynamic_function(artifact) == Ok("op_server_hello")

serialize_type_shape(type_shape) == 1

deserialize_type_shape(artifact) == Ok(UnknownType)

\* derive(Serialize, Deserialize) for DynamicFunctionShape.
serialize_shape(shape) ==
    [name |-> shape.name,
     argument_types |-> [i \in 1..Len(shape.argument_types) |->
                            serialize_type_shape(shape.argument_types[i])],
     return_type |-> serialize_type_shape(shape.return_type)]

deserialize_shape(artifact) ==
    Ok(Shape(artifact.name,
             [i \in 1..Len(artifact.argument_types) |->
                 deserialize_type_shape(artifact.argument_types[i]).value],
             deserialize_type_shape(artifact.return_type).value))

serialize_function(func) ==
    [shape |-> serialize_shape(func.shape),
     dynamic_fn |-> serialize_dynamic_function(func.dynamic_fn)]

deserialize_function(artifact) ==
    Ok(Function(deserialize_shape(artifact.shape).value,
                deserialize_dynamic_function(artifact.dynamic_fn).value))

\* derive(Serialize, Deserialize) for Term, an externally tagged enum.
RECURSIVE serialize_term(_)
serialize_term(term) ==
    IF term.kind = "Variable"
    THEN [tag |-> "Variable",
          typ |-> serialize_type_shape(term.typ),
          query |-> term.query]
    ELSE [tag |-> "Application",
          func |-> serialize_function(term.func),
          subterms |-> [i \in 1..Len(term.subterms) |-> serialize_term(term.subterms[i])]]

RECURSIVE deserialize_term(_)
deserialize_term(artifact) ==
    IF artifact.tag = "Variable"
    THEN Ok(Variable(deserialize_type_shape(artifact.typ).value, artifact.query))
    ELSE Ok(Application(deserialize_function(artifact.func).value,
                        [i \in 1..Len(artifact.subterms) |->
                            deserialize_term(artifact.subterms[i]).value]))

\* A term of the model with each function symbol bound to its dynamic function.
RECURSIVE bind(_)
bind(term) ==
    IF term.kind = "Variable" THEN term
    ELSE Application(new_function(term.func),
                     [i \in 1..Len(term.subterms) |-> bind(term.subterms[i])])

serdeFrame ==
    UNCHANGED <<evalVars, dynVars, iterVars, zooVars, harnessVars, anchorVars, prettyVars, tlsVars>>

InitSerde ==
    /\ persisted = None
    /\ IdleEval /\ IdleDyn /\ IdleIter /\ IdleZoo /\ IdleHarness /\ IdleAnchor /\ IdlePretty /\ IdleTls

\* A term is serialized, the artifact deserialized, the result serialized.
PersistTerm(term) ==
    /\ LET artifact == serialize_term(bind(term))
           restored == deserialize_term(artifact)
       IN  persisted' = Some([what |-> "Term",
                              value |-> bind(term),
                              artifact |-> artifact,
                              restored |-> restored,
                              again |-> serialize_term(restored.value)])
    /\ serdeFrame

\* The same for the dynamic function of a function symbol of the signature.
PersistDynamicFunction(shape) ==
    /\ LET dynamic_function == new_function(shape).dynamic_fn
           artifact == serialize_dynamic_function(dynamic_function)
           restored == deserialize_dynamic_function(artifact)
       IN  persisted' = Some([what |-> "DynamicFunction",
                              value |-> dynamic_function,
                              artifact |-> artifact,
                              restored |-> restored,
                              again |-> serialize_dynamic_function(restored.value)])
    /\ serdeFrame

\* The same for a type shape of the signature.
PersistTypeShape(type_shape) ==
    /\ LET artifact == serialize_type_shape(type_shape)
           restored == deserialize_type_shape(artifact)
       IN  persisted' = Some([what |-> "TypeShape",
                              value |-> type_shape,
                              artifact |-> artifact,
                              restored |-> restored,
                              again |-> serialize_type_shape(restored.value)])
    /\ serdeFrame

NextSerde ==
    \/ \E term \in IterTerms : PersistTerm(term)
    \/ \E shape \in IterFunctions : PersistDynamicFunction(shape)
    \/ \E type_shape \in IterTypes : PersistTypeShape(type_shape)

SpecSerde == InitSerde /\ [][NextSerde]_vars

C16_Rebinds ==
    persisted.some =>
        /\ persisted.v.what = "DynamicFunction" =>
               persisted.v.restored = Ok(persisted.v.value)
        /\ persisted.v.what = "TypeShape" =>
               /\ persisted.v.restored.kind = "Ok"
               /\ type_shape_eq(persisted.v.restored.value, persisted.v.value)

(***************************************************************************)
(* remove_prefix (puffin/src/algebra/term.rs).  A str is a sequence of     *)
(* characters; positions are 0-based byte offsets as in the code.          *)
(***************************************************************************)
MaxStrLen == 5         \* longest arbitrary string handed to remove_prefix
MaxGenericDepth == 2   \* deepest nesting of generics in a type name
MaxPath == 2           \* most module-path segments in front of a type

\* str::split(pattern) for a pattern of one character: the parts between the
\* occurrences, in order; one part more than there are occurrences.
RECURSIVE split(_, _, _)
split(str, pattern, part) ==
    IF str = <<>> THEN <<part>>
    ELSE IF Head(str) = pattern THEN <<part>> \o split(Tail(str), pattern, <<>>)
    ELSE split(Tail(str), pattern, Append(part, Head(str)))

\* Itertools::collect_tuple into a pair: Some only for exactly two elements.
collect_tuple(parts) == IF Len(parts) = 2 THEN Some(parts) ELSE None

\* str::rfind("::"): the offset of the last occurrence.
rfind(str) ==
    LET found == {pos \in 0..(Len(str) - 2) : str[pos + 1] = ":" /\ str[pos + 2] = ":"}
    IN  IF found = {} THEN None ELSE Some(Max(found))

\* &str[pos..]
from(str, pos) == SubSeq(str, pos + 1, Len(str))

RECURSIVE remove_prefix(_)
remove_prefix(str) ==
    LET tuple == collect_tuple(split(str, "<", <<>>))
    IN  IF tuple.some
        THEN LET non_generic == tuple.v[1]
             IN  IF Len(tuple.v[2]) = 0
                 THEN Panic([text |-> "generic.len() - 1 below zero"])
                 ELSE LET generic == SubSeq(tuple.v[2], 1, Len(tuple.v[2]) - 1)
                          inner == remove_prefix(generic)
                          pos == rfind(non_generic)
                      IN  IF inner.kind = "Panic" THEN inner
                          ELSE Ok((IF pos.some THEN from(non_generic, pos.v + 2)
                                   ELSE non_generic)
                                  \o <<"<">> \o inner.value \o <<">">>)
        ELSE LET pos == rfind(str)
             IN  IF pos.some THEN Ok(from(str, pos.v + 2)) ELSE Ok(str)

\* Well-formed type names: module-path segments, the type, and no or one
\* generic argument, itself a type name.
TypeName(path, generic) == [path |-> path, generic |-> generic]

RECURSIVE TypeNames(_)
TypeNames(d) ==
    {TypeName(path, None) : path \in 0..MaxPath}
    \cup (IF d = 0 THEN {}
          ELSE {TypeName(path, Some(g)) : path \in 0..MaxPath, g \in TypeNames(d - 1)})

\* std::any::type_name of a type name, and of it without the module paths.
RECURSIVE type_name(_, _)
type_name(name, with_path) ==
    LET segments == IF with_path /\ name.path > 0
                    THEN [i \in 1..(3 * name.path) |-> IF i % 3 = 1 THEN "m" ELSE ":"]
                    ELSE <<>>
    IN  segments \o <<"T">> \o
        (IF name.generic.some
         THEN <<"<">> \o type_name(name.generic.v, with_path) \o <<">">>
         ELSE <<>>)

Characters == {"T", ":", "<", ">"}

Strs == UNION {[1..n -> Characters] : n \in 0..MaxStrLen}
        \cup {type_name(name, TRUE) : name \in TypeNames(MaxGenericDepth)}

prettyFrame ==
    UNCHANGED <<evalVars, dynVars, iterVars, zooVars, harnessVars, anchorVars, serdeVars,
                tlsVars>>

InitPretty ==
    /\ stripped = None
    /\ IdleEval /\ IdleDyn /\ IdleIter /\ IdleZoo /\ IdleHarness /\ IdleAnchor /\ IdleSerde
    /\ IdleTls

\* remove_prefix is called on a str, and on what it returned.
RemovePrefix(str) ==
    /\ stripped = None     \* one recorded call
    /\ LET out == remove_prefix(str)
       IN  stripped' = Some([str |-> str,
                             out |-> out,
                             again |-> IF out.kind = "Ok" THEN remove_prefix(out.value)
                                       ELSE out])
    /\ prettyFrame

NextPretty == \E str \in Strs : RemovePrefix(str)

SpecPretty == InitPretty /\ [][NextPretty]_vars

\* C17: remove_prefix is idempotent: wherever remove_prefix(s) is defined,
\* remove_prefix(remove_prefix(s)) = remove_prefix(s).
C17_Idempotent ==
    (stripped.some /\ stripped.v.out.kind = "Ok") => stripped.v.again = stripped.v.out

\* C18: for every well-formed type name, with generics nested to any depth,
\* remove_prefix strips the module path of the outer type and of every
\* generic argument and keeps the generic structure.
C18_StripsRecursively ==
    stripped.some =>
        \A name \in TypeNames(MaxGenericDepth) :
            stripped.v.str = type_name(name, TRUE) =>
                stripped.v.out = Ok(type_name(name, FALSE))

(***************************************************************************)
(* Cipher suite negotiation (tlspuffin/src/tls/rustls/suites.rs).          *)
(***************************************************************************)
MaxSuites == 2    \* longest list of suites of the client, and of the server

\* A SupportedCipherSuite, and its CipherSuite.
Tls13(suite_name) == [version |-> "Tls13", common |-> [suite |-> suite_name]]
Tls12(suite_name) == [version |-> "Tls12", common |-> [suite |-> suite_name]]
suite(supported) == supported.common.suite

TLS13_AES_256_GCM_SHA384 == Tls13("TLS13_AES_256_GCM_SHA384")
TLS13_AES_128_GCM_SHA256 == Tls13("TLS13_AES_128_GCM_SHA256")
TLS_ECDHE_RSA_WITH_AES_128_GCM_SHA256 == Tls12("TLS_ECDHE_RSA_WITH_AES_128_GCM_SHA256")

contains(slice, x) == \E i \in 1..Len(slice) : slice[i] = x

\* server_suites.iter().find(|x| *client_suite == x.suite()), from the i-th on.
RECURSIVE find_suite(_, _, _)
find_suite(server_suites, i, client_suite) ==
    IF i > Len(server_suites) THEN None
    ELSE IF client_suite = suite(server_suites[i]) THEN Some(server_suites[i])
    ELSE find_suite(server_suites, i + 1, client_suite)

\* server_suites.iter().find(|x| client_suites.contains(&x.suite())).
RECURSIVE find_offered(_, _, _)
find_offered(server_suites, i, client_suites) ==
    IF i > Len(server_suites) THEN None
    ELSE IF contains(client_suites, suite(server_suites[i])) THEN Some(server_suites[i])
    ELSE find_offered(server_suites, i + 1, client_suites)

\* The loop of choose_ciphersuite_preferring_client, from the i-th client
\* suite on.
RECURSIVE for_client_suite(_, _, _)
for_client_suite(client_suites, i, server_suites) ==
    IF i > Len(client_suites) THEN None
    ELSE LET selected == find_suite(server_suites, 1, client_suites[i])
         IN  IF selected.some THEN selected
             ELSE for_client_suite(client_suites, i + 1, server_suites)

choose_ciphersuite_preferring_server(client_suites, server_suites) ==
    find_offered(server_suites, 1, client_suites)

\* Mutant of choose_ciphersuite_preferring_client: the order of the server
\* decides.
choose_ciphersuite_by_server_order(client_suites, server_suites) ==
    find_offered(server_suites, 1, client_suites)

choose_ciphersuite_preferring_client(client_suites, server_suites) ==
    for_client_suite(client_suites, 1, server_suites)

CipherSuites ==
    {"TLS13_AES_256_GCM_SHA384", "TLS13_AES_128_GCM_SHA256",
     "TLS_ECDHE_RSA_WITH_AES_128_GCM_SHA256", "TLS_NULL_WITH_NULL_NULL"}

SupportedCipherSuites ==
    {TLS13_AES_256_GCM_SHA384, TLS13_AES_128_GCM_SHA256,
     TLS_ECDHE_RSA_WITH_AES_128_GCM_SHA256}

SuiteLists(S) == UNION {[1..n -> S] : n \in 0..MaxSuites}

suitesFrame ==
    UNCHANGED <<evalVars, dynVars, iterVars, zooVars, harnessVars, anchorVars, serdeVars,
                prettyVars, hh, calls, wire>>

InitSuites ==
    /\ chosen = None /\ hh = None /\ calls = <<>> /\ wire = None
    /\ IdleEval /\ IdleDyn /\ IdleIter /\ IdleZoo
    /\ IdleHarness /\ IdleAnchor /\ IdleSerde /\ IdlePretty

ChoosePreferringClient(client_suites, server_suites) ==
    /\ chosen = None
    /\ chosen' = Some([prefer |-> "client",
                       client_suites |-> client_suites,
                       server_suites |-> server_suites,
                       selected |-> choose_ciphersuite_preferring_client(
                                        client_suites, server_suites)])
    /\ suitesFrame

ChoosePreferringServer(client_suites, server_suites) ==
    /\ chosen = None
    /\ chosen' = Some([prefer |-> "server",
                       client_suites |-> client_suites,
                       server_suites |-> server_suites,
                       selected |-> choose_ciphersuite_preferring_server(
                                        client_suites, server_suites)])
    /\ suitesFrame

NextSuites ==
    \E client_suites \in SuiteLists(CipherSuites),
       server_suites \in SuiteLists(SupportedCipherSuites) :
        \/ ChoosePreferringClient(client_suites, server_suites)
        \/ ChoosePreferringServer(client_suites, server_suites)

SpecSuites == InitSuites /\ [][NextSuites]_vars

\* The suites both lists name.
Common(client_suites, server_suites) ==
    {client_suites[i] : i \in 1..Len(client_suites)}
        \cap {suite(server_suites[j]) : j \in 1..Len(server_suites)}

\* C25: preferring the client, the suite selected is one of the server's list
\* and is the suite of the earliest entry of the client list that the server
\* supports; preferring the server, it is the earliest entry of the server
\* list whose suite the client offers; either way None is returned exactly
\* when the lists have no suite in common.
C25_Preference ==
    chosen.some =>
        LET c == chosen.v.client_suites
            s == chosen.v.server_suites
            selected == chosen.v.selected
        IN  /\ ~selected.some <=> Common(c, s) = {}
            /\ selected.some =>
                  \E j \in 1..Len(s) :
                      /\ selected.v = s[j]
                      /\ contains(c, suite(s[j]))
                      /\ chosen.v.prefer = "server" =>
                            \A k \in 1..(j - 1) : ~contains(c, suite(s[k]))
                      /\ chosen.v.prefer = "client" =>
                            \E i \in 1..Len(c) :
                                /\ c[i] = suite(selected.v)
                                /\ \A k \in 1..(i - 1) : c[k] \notin Common(c, s)
                                /\ \A k \in 1..(j - 1) : suite(s[k]) # c[i]

\* C25 witness: client and server rank the two suites they share in opposite
\* orders, and the client's first was selected though the server ranks it last.
C25_Witness ==
    /\ chosen.some
    /\ chosen.v.prefer = "client"
    /\ chosen.v.client_suites = <<"TLS13_AES_128_GCM_SHA256", "TLS13_AES_256_GCM_SHA384">>
    /\ chosen.v.server_suites = <<TLS13_AES_256_GCM_SHA384, TLS13_AES_128_GCM_SHA256>>
    /\ chosen.v.selected = Some(TLS13_AES_128_GCM_SHA256)

(***************************************************************************)
(* The handshake hash (tlspuffin/src/tls/rustls/hash_hs.rs).               *)
(*                                                                         *)
(* Bytes are strings.  A digest context is its algorithm and the bytes it  *)
(* was updated with; the digest it finishes to is a value that stands for  *)
(* exactly that algorithm and those bytes.                                 *)
(***************************************************************************)
MaxCalls == 5     \* calls made on one HandshakeHashBuffer or HandshakeHash

digest_Context_new(alg) == [algorithm |-> alg, input |-> <<>>]
digest_Context_update(ctx, data) == [ctx EXCEPT !.input = @ \o data]
digest_Context_finish(ctx) ==
    [algorithm |-> ctx.algorithm, value |-> ToString(<<ctx.algorithm, ctx.input>>)]
as_ref(digest) == <<digest.value>>

\* Messages: a handshake payload with its encoding, or another payload.
MessageHandshake(encoding) ==
    [payload |-> [kind |-> "Handshake", encoding |-> encoding]]
MessageAlert == [payload |-> [kind |-> "Alert", encoding |-> <<"!">>]]
get_encoding(hs) == hs.encoding

\* HandshakeMessagePayload::build_handshake_hash(hash).get_encoding(): the
\* header of a message_hash handshake message and the hash.
build_handshake_hash(hash) == <<"message_hash">> \o hash

HandshakeHashBuffer(buffer, client_auth_enabled) ==
    [type |-> "HandshakeHashBuffer", buffer |-> buffer,
     client_auth_enabled |-> client_auth_enabled]

HandshakeHash(ctx, client_auth, override_buffer) ==
    [type |-> "HandshakeHash", ctx |-> ctx, client_auth |-> client_auth,
     override_buffer |-> override_buffer]

HandshakeHashBuffer_new == HandshakeHashBuffer(<<>>, FALSE)

set_client_auth_enabled(self) == [self EXCEPT !.client_auth_enabled = TRUE]

HandshakeHashBuffer_update_raw(self, buf) == [self EXCEPT !.buffer = @ \o buf]

HandshakeHashBuffer_add_message(self, m) ==
    IF m.payload.kind = "Handshake"
    THEN [self EXCEPT !.buffer = @ \o get_encoding(m.payload)]
    ELSE self

\* Mutant of start_hash: the buffer is kept as transcript whether or not
\* client auth was enabled.
start_hash_keeps_buffer(self, alg) ==
    HandshakeHash(digest_Context_update(digest_Context_new(alg), self.buffer),
                  Some(self.buffer), None)

start_hash(self, alg) ==
    HandshakeHash(digest_Context_update(digest_Context_new(alg), self.buffer),
                  IF self.client_auth_enabled THEN Some(self.buffer) ELSE None,
                  None)

HandshakeHash_new(alg) == HandshakeHash(digest_Context_new(alg), None, None)

new_override(static_buffer, alg) ==
    HandshakeHash(digest_Context_new(alg), None, Some(static_buffer))

abandon_client_auth(self) == [self EXCEPT !.client_auth = None]

\* Mutant of update_raw: the bytes are hashed only while the transcript is
\* kept.
update_raw_while_buffering(self, buf) ==
    IF self.client_auth.some
    THEN [self EXCEPT !.ctx = digest_Context_update(@, buf),
                      !.client_auth = Some(@.v \o buf)]
    ELSE self

update_raw(self, buf) ==
    [self EXCEPT !.ctx = digest_Context_update(@, buf),
                 !.client_auth = IF @.some THEN Some(@.v \o buf) ELSE @]

add_message(self, m) ==
    IF m.payload.kind = "Handshake" THEN update_raw(self, get_encoding(m.payload))
    ELSE self

rollup_for_hrr(self) ==
    LET old_hash == digest_Context_finish(self.ctx)
        old_handshake_hash_msg == build_handshake_hash(as_ref(old_hash))
    IN  update_raw([self EXCEPT !.ctx = digest_Context_new(self.ctx.algorithm)],
                   old_handshake_hash_msg)

get_current_hash(self) == digest_Context_finish(self.ctx)

\* Mutant of get_current_hash_raw: always the hash of the context.
get_current_hash_raw_of_ctx(self) == as_ref(get_current_hash(self))

get_current_hash_raw(self) ==
    IF self.override_buffer.some THEN self.override_buffer.v
    ELSE as_ref(get_current_hash(self))

\* Mutant of take_handshake_buf: the buffer is cloned, not taken.
take_handshake_buf_clone(self) == [self |-> self, returned |-> self.client_auth]

\* Option::take: the content is returned and None is left.
take_handshake_buf(self) ==
    [self |-> [self EXCEPT !.client_auth = None], returned |-> self.client_auth]

\* Codec for HandshakeHash.  A Reader is a buffer and an offset; rest() is
\* what lies behind the offset.
Reader(buf, offs) == [buf |-> buf, offs |-> offs]
rest(r) == SubSeq(r.buf, r.offs + 1, Len(r.buf))
HandshakeHash_encode(self, bytes) == bytes \o get_current_hash_raw(self)
HandshakeHash_read(r) == Some(new_override(rest(r), "SHA256"))

\* FnError::Unknown, and into_transcript of a claim found, or not
\* (src/tls/fn_transcript.rs).
FnErrorUnknown(msg) == [variant |-> "Unknown", msg |-> msg]
into_transcript(claim) ==
    IF claim.some
    THEN Ok(new_override(SubSeq(claim.v.transcript.data, 1, claim.v.transcript.length),
                         "SHA256"))
    ELSE Err(FnErrorUnknown([text |-> "Failed to find transcript"]))

HashBufs == {<<"a">>, <<"b", "c">>}
HashMessages == {MessageHandshake(<<"m">>), MessageAlert}
HashAlgorithms == {"SHA256", "SHA384"}
TranscriptClaims ==
    {None, Some([transcript |-> [data |-> <<"t", "r", "0">>, length |-> 2]])}
Readers == {Reader(<<"t", "r">>, 0), Reader(<<"x", "t">>, 1), Reader(<<>>, 0)}

hashFrame ==
    UNCHANGED <<evalVars, dynVars, iterVars, zooVars, harnessVars, anchorVars, serdeVars,
                prettyVars, chosen, wire>>

\* HandshakeHashBuffer::new().
InitHash ==
    /\ hh = HandshakeHashBuffer_new
    /\ calls = <<>>
    /\ chosen = None /\ wire = None
    /\ IdleEval /\ IdleDyn /\ IdleIter /\ IdleZoo
    /\ IdleHarness /\ IdleAnchor /\ IdleSerde /\ IdlePretty

\* A call is made: hh becomes what the call leaves, and the call is noted.
Called(op, input, output, self) ==
    /\ Len(calls) < MaxCalls
    /\ hh' = self
    /\ calls' = Append(calls, [op |-> op, input |-> input, returned |-> output])
    /\ hashFrame

IsBuffer == hh.type = "HandshakeHashBuffer"
IsHash == hh.type = "HandshakeHash"

SetClientAuthEnabled ==
    /\ IsBuffer
    /\ Called("set_client_auth_enabled", <<>>, <<>>, set_client_auth_enabled(hh))

BufferAddMessage(m) ==
    /\ IsBuffer
    /\ Called("add_message", m, <<>>, HandshakeHashBuffer_add_message(hh, m))

BufferUpdateRaw(buf) ==
    /\ IsBuffer
    /\ Called("update_raw", buf, <<>>, HandshakeHashBuffer_update_raw(hh, buf))

StartHash(alg) ==
    /\ IsBuffer
    /\ Called("start_hash", alg, <<>>, start_hash(hh, alg))

\* Instead of a buffer, the program makes a HandshakeHash at once.
New(alg) ==
    /\ calls = <<>>
    /\ Called("new", alg, <<>>, HandshakeHash_new(alg))

IntoTranscript(claim) ==
    /\ calls = <<>>
    /\ LET transcript == into_transcript(claim)
       IN  /\ transcript.kind = "Ok"
           /\ Called("new_override",
                     SubSeq(claim.v.transcript.data, 1, claim.v.transcript.length),
                     <<>>, transcript.value)

Read(r) ==
    /\ calls = <<>>
    /\ Called("read", rest(r), <<>>, HandshakeHash_read(r).v)

AbandonClientAuth ==
    /\ IsHash
    /\ Called("abandon_client_auth", <<>>, <<>>, abandon_client_auth(hh))

AddMessage(m) ==
    /\ IsHash
    /\ Called("add_message", m, <<>>, add_message(hh, m))

UpdateRaw(buf) ==
    /\ IsHash
    /\ Called("update_raw", buf, <<>>, update_raw(hh, buf))

RollupForHrr ==
    /\ IsHash
    /\ Called("rollup_for_hrr", <<>>, <<>>, rollup_for_hrr(hh))

TakeHandshakeBuf ==
    /\ IsHash
    /\ Called("take_handshake_buf", <<>>, take_handshake_buf(hh).returned,
              take_handshake_buf(hh).self)

NextHash ==
    \/ SetClientAuthEnabled
    \/ \E m \in HashMessages : BufferAddMessage(m)
    \/ \E buf \in HashBufs : BufferUpdateRaw(buf)
    \/ \E alg \in HashAlgorithms : StartHash(alg)
    \/ \E alg \in HashAlgorithms : New(alg)
    \/ \E claim \in TranscriptClaims : IntoTranscript(claim)
    \/ \E r \in Readers : Read(r)
    \/ AbandonClientAuth
    \/ \E m \in HashMessages : AddMessage(m)
    \/ \E buf \in HashBufs : UpdateRaw(buf)
    \/ RollupForHrr
    \/ TakeHandshakeBuf

SpecHash == InitHash /\ [][NextHash]_vars

(***************************************************************************)
(* Properties of the handshake hash, stated over the calls made.           *)
(***************************************************************************)
OpAt(i) == calls[i].op
Made(op, n) == \E i \in 1..n : OpAt(i) = op
LastOp == IF calls = <<>> THEN "" ELSE OpAt(Len(calls))

\* The bytes a call adds by itself.
Fed(call) ==
    CASE call.op = "update_raw" -> call.input
      [] call.op = "add_message" ->
           IF call.input.payload.kind = "Handshake" THEN call.input.payload.encoding
           ELSE <<>>
      [] OTHER -> <<>>

\* The algorithm the hash was started with.
AlgorithmOf(log) ==
    IF \E i \in 1..Len(log) : log[i].op \in {"start_hash", "new"}
    THEN log[CHOOSE i \in 1..Len(log) : log[i].op \in {"start_hash", "new"}].input
    ELSE "SHA256"

Digest(alg, bytes) ==
    digest_Context_finish(digest_Context_update(digest_Context_new(alg), bytes))

\* The byte stream the running hash stands for after the first n calls: the
\* bytes added, in order, where a rollup_for_hrr puts the message_hash
\* message of the hash so far in the place of everything before it.
RECURSIVE Hashed(_, _)
Hashed(log, n) ==
    IF n = 0 THEN <<>>
    ELSE IF log[n].op = "rollup_for_hrr"
         THEN build_handshake_hash(as_ref(Digest(AlgorithmOf(log), Hashed(log, n - 1))))
         ELSE Hashed(log, n - 1) \o Fed(log[n])

\* All the bytes added by the first n calls, in order: those of update_raw and
\* add_message, before and after start_hash, and the message_hash message
\* that a rollup_for_hrr adds through update_raw.
RECURSIVE Added(_, _)
Added(log, n) ==
    IF n = 0 THEN <<>>
    ELSE Added(log, n - 1) \o
         (IF log[n].op = "rollup_for_hrr" THEN Hashed(log, n) ELSE Fed(log[n]))

\* C26: start_hash keeps the buffer as client-auth transcript exactly when
\* client auth was enabled on the HandshakeHashBuffer; a HandshakeHash never
\* starts to keep one later; while kept, the transcript is the concatenation,
\* in order, of all bytes added before and after start_hash, and it stays
\* kept unless abandoned or taken; once abandon_client_auth was called it is
\* None and stays None through every later call.
C26_ClientAuthTranscript ==
    /\ [](IsHash =>
            /\ hh.client_auth.some => hh.client_auth.v = Added(calls, Len(calls))
            /\ hh.client_auth.some => Made("set_client_auth_enabled", Len(calls))
            /\ Made("abandon_client_auth", Len(calls)) => hh.client_auth = None)
    /\ [][/\ (IsBuffer /\ IsHash') =>
                 (hh'.client_auth.some <=> hh.client_auth_enabled)
          /\ (IsHash /\ hh.client_auth = None) => hh'.client_auth = None
          /\ (IsHash /\ hh.client_auth.some
                /\ LastOp' \notin {"abandon_client_auth", "take_handshake_buf"}) =>
                 hh'.client_auth.some]_vars

\* C26 witness: client auth was enabled, bytes were added before and after
\* start_hash, and the transcript kept holds them all, in order.
C26_Witness ==
    /\ IsHash
    /\ Len(calls) = 4
    /\ OpAt(1) = "set_client_auth_enabled"
    /\ OpAt(2) = "update_raw"
    /\ OpAt(3) = "start_hash"
    /\ OpAt(4) = "update_raw"
    /\ hh.client_auth = Some(calls[2].input \o calls[4].input)

\* C27 as stated: get_current_hash is the digest of the bytes buffered before
\* start_hash followed by the bytes added after it.
C27_HashOfAllBytes ==
    IsHash =>
        get_current_hash(hh) = Digest(hh.ctx.algorithm, Added(calls, Len(calls)))

\* C27, amended: get_current_hash is the digest of the bytes buffered before
\* start_hash followed by the bytes added after it, where a rollup_for_hrr
\* puts the message_hash message of the hash so far in the place of all that
\* was hashed before it; set_client_auth_enabled, abandon_client_auth and
\* take_handshake_buf make no difference to it.
C27_HashOfStream ==
    IsHash =>
        /\ hh.ctx.algorithm = AlgorithmOf(calls)
        /\ get_current_hash(hh) = Digest(AlgorithmOf(calls), Hashed(calls, Len(calls)))
        /\ ~Made("rollup_for_hrr", Len(calls)) =>
               get_current_hash(hh) = Digest(AlgorithmOf(calls), Added(calls, Len(calls)))

\* C27 witness: bytes were buffered, the hash was started and, with client
\* auth abandoned, rolled up, bytes were added after that, and the hash is the
\* digest of the message_hash message followed by those bytes.
C27_Witness ==
    /\ IsHash
    /\ Len(calls) = 5
    /\ OpAt(1) = "update_raw"
    /\ OpAt(2) = "start_hash"
    /\ OpAt(3) = "abandon_client_auth"
    /\ OpAt(4) = "rollup_for_hrr"
    /\ OpAt(5) = "update_raw"
    /\ get_current_hash(hh) =
           Digest(calls[2].input,
                  build_handshake_hash(as_ref(Digest(calls[2].input, calls[1].input)))
                      \o calls[5].input)

\* C28: take_handshake_buf works once.  The first call returns the transcript
\* kept, which is all the bytes added up to the call (None when no transcript
\* is kept: client auth not enabled, or abandoned), and leaves None; every
\* later call returns None; and a call that adds bytes after a
\* take_handshake_buf leaves the buffer None.
C28_TakeOnce ==
    /\ \A i \in 1..Len(calls) :
          OpAt(i) = "take_handshake_buf" =>
              calls[i].returned =
                  IF /\ Made("set_client_auth_enabled", i - 1)
                     /\ ~Made("abandon_client_auth", i - 1)
                     /\ ~Made("take_handshake_buf", i - 1)
                  THEN Some(Added(calls, i - 1))
                  ELSE None
    /\ (IsHash /\ Made("take_handshake_buf", Len(calls))) => hh.client_auth = None

\* C28 witness: a transcript was kept and taken whole, bytes were added, and
\* the second take_handshake_buf returned None.
C28_Witness ==
    /\ Len(calls) = 5
    /\ OpAt(1) = "set_client_auth_enabled"
    /\ OpAt(2) = "start_hash"
    /\ OpAt(3) = "take_handshake_buf"
    /\ OpAt(4) = "update_raw"
    /\ OpAt(5) = "take_handshake_buf"
    /\ calls[3].returned = Some(<<>>)
    /\ calls[5].returned = None

\* C29: a HandshakeHash made by new_override (by into_transcript, or by
\* HandshakeHash::read) returns the override buffer it was made with from
\* get_current_hash_raw after any calls of add_message, update_raw and
\* rollup_for_hrr; its encoding is that buffer, so reading what was read and
\* encoded again gives the same bytes.
C29_OverrideIsConstant ==
    (calls # <<>> /\ OpAt(1) \in {"new_override", "read"}) =>
        /\ hh.override_buffer = Some(calls[1].input)
        /\ get_current_hash_raw(hh) = calls[1].input
        /\ HandshakeHash_encode(hh, <<>>) = calls[1].input
        /\ HandshakeHash_encode(
               HandshakeHash_read(Reader(HandshakeHash_encode(hh, <<>>), 0)).v, <<>>)
             = calls[1].input

\* C29 witness: a hash with a non-empty override was updated, rolled up and
\* updated again, and its running hash is not the override.
C29_Witness ==
    /\ Len(calls) = 4
    /\ OpAt(1) \in {"new_override", "read"}
    /\ OpAt(2) = "update_raw"
    /\ OpAt(3) = "rollup_for_hrr"
    /\ OpAt(4) = "add_message"
    /\ calls[1].input # <<>>
    /\ as_ref(get_current_hash(hh)) # calls[1].input
    /\ Len(hh.ctx.input) = 3

(***************************************************************************)
(* Length-prefixed payloads (src/tlspuffin/src/tls/rustls/msgs/base.rs).   *)
(* A byte is a number in 0..255, a payload the sequence of its bytes.  The *)
(* integer codecs and the Reader are puffin::codec's: big-endian numbers,  *)
(* take(n) handing out the next n bytes or nothing.                        *)
(***************************************************************************)
MaxPayload == 2

\* The casts: len as u8, len as u16, len as u32 keep the low bits (the low
\* 32 as two halves of 16).
as_u8(n)  == n % 2^8
as_u16(n) == n % 2^16
as_u32(n) == ((n \div 2^16) % 2^16) * 2^16 + (n % 2^16)

\* u8::encode, u16::encode, codec::u24(v).encode.
u8_encode(v, bytes)  == Append(bytes, v)
u16_encode(v, bytes) == bytes \o <<v \div 2^8, v % 2^8>>
u24_encode(v, bytes) == bytes \o <<(v \div 2^16) % 2^8, (v \div 2^8) % 2^8, v % 2^8>>

\* Reader::take(n): the next n bytes and the reader behind them, or None and
\* the reader as it was.
take(r, n) ==
    IF Len(r.buf) - r.offs < n
    THEN [v |-> None, r |-> r]
    ELSE [v |-> Some(SubSeq(r.buf, r.offs + 1, r.offs + n)), r |-> Reader(r.buf, r.offs + n)]

\* Reader::sub(len): a reader of the next len bytes.
sub(r, len) ==
    LET t == take(r, len)
    IN  [v |-> IF t.v.some THEN Some(Reader(t.v.v, 0)) ELSE None, r |-> t.r]

\* u8::read, u16::read, codec::u24::read.
u8_read(r) ==
    LET t == take(r, 1)
    IN  [v |-> IF t.v.some THEN Some(t.v.v[1]) ELSE None, r |-> t.r]
u16_read(r) ==
    LET t == take(r, 2)
    IN  [v |-> IF t.v.some THEN Some(t.v.v[1] * 2^8 + t.v.v[2]) ELSE None, r |-> t.r]
u24_read(r) ==
    LET t == take(r, 3)
    IN  [v |-> IF t.v.some THEN Some(t.v.v[1] * 2^16 + t.v.v[2] * 2^8 + t.v.v[3]) ELSE None,
         r |-> t.r]

\* The body of the three read()s behind the length: sub(len)?, then
\* sub.rest().to_vec().
read_body(l) ==
    IF ~l.v.some
    THEN [v |-> None, r |-> l.r]
    ELSE LET s == sub(l.r, l.v.v)
         IN  [v |-> IF s.v.some THEN Some(rest(s.v.v)) ELSE None, r |-> s.r]

\* Codec for PayloadU8.
PayloadU8_encode(self, bytes) == u8_encode(as_u8(Len(self)), bytes) \o self
PayloadU8_read(r) == read_body(u8_read(r))

\* PayloadU16::encode_slice and Codec for PayloadU16.
encode_slice(slice, bytes) == u16_encode(as_u16(Len(slice)), bytes) \o slice
PayloadU16_encode(self, bytes) == encode_slice(self, bytes)
PayloadU16_read(r) == read_body(u16_read(r))

\* Codec for PayloadU24.
PayloadU24_encode(self, bytes) == u24_encode(as_u32(Len(self)), bytes) \o self
PayloadU24_read(r) == read_body(u24_read(r))

\* The payloads tried: every short one over a few bytes, and long ones
\* around the largest lengths a u8 and a u16 hold; the bytes that may
\* follow the payload on the wire.
PayloadBytes == {0, 1, 2^8 - 1}
Fill(n) == [i \in 1..n |-> 0]
ShortPayloads == UNION {[1..n -> PayloadBytes] : n \in 0..MaxPayload}
LongPayloads == {Fill(2^8 - 1), Fill(2^8), Fill(2^8 + 1), Fill(2^16 - 1), Fill(2^16)}
PayloadsTried == ShortPayloads \cup LongPayloads
Trailing == {<<>>, <<0>>, <<1, 2>>}

codecFrame ==
    UNCHANGED <<evalVars, dynVars, iterVars, zooVars, harnessVars, anchorVars, serdeVars,
                prettyVars, chosen, hh, calls>>

InitCodec ==
    /\ IdleEval /\ IdleDyn /\ IdleIter /\ IdleZoo
    /\ IdleRest
    /\ wire = None

\* One round trip: p is encoded into an empty vector, the bytes are put on
\* the wire in front of what follows, and a reader at their start reads a
\* payload back.  What is kept: the payload, its encoding, what followed,
\* what was read and where the reader stopped.
RoundTripped(kind, p, after, encoded, back) ==
    Some([kind |-> kind, payload |-> p, encoded |-> encoded,
          after |-> after, read |-> back.v, offs |-> back.r.offs])

RoundTripU8(p, after) ==
    /\ wire = None
    /\ LET encoded == PayloadU8_encode(p, <<>>)
       IN  wire' = RoundTripped("PayloadU8", p, after, encoded,
                                PayloadU8_read(Reader(encoded \o after, 0)))
    /\ codecFrame

RoundTripU16(p, after) ==
    /\ wire = None
    /\ LET encoded == PayloadU16_encode(p, <<>>)
       IN  wire' = RoundTripped("PayloadU16", p, after, encoded,
                                PayloadU16_read(Reader(encoded \o after, 0)))
    /\ codecFrame

RoundTripU24(p, after) ==
    /\ wire = None
    /\ LET encoded == PayloadU24_encode(p, <<>>)
       IN  wire' = RoundTripped("PayloadU24", p, after, encoded,
                                PayloadU24_read(Reader(encoded \o after, 0)))
    /\ codecFrame

NextCodec ==
    \/ \E p \in PayloadsTried, after \in Trailing : RoundTripU8(p, after)
    \/ \E p \in PayloadsTried, after \in Trailing : RoundTripU16(p, after)
    \/ \E p \in PayloadsTried, after \in Trailing : RoundTripU24(p, after)

SpecCodec == InitCodec /\ [][NextCodec]_vars

\* The length the prefix of an encoding says, and the width of the prefix.
PrefixWidth(kind) ==
    CASE kind = "PayloadU8" -> 1 [] kind = "PayloadU16" -> 2 [] kind = "PayloadU24" -> 3
RECURSIVE BigEndian(_)
BigEndian(bytes) ==
    IF bytes = <<>> THEN 0
    ELSE BigEndian(SubSeq(bytes, 1, Len(bytes) - 1)) * 2^8 + bytes[Len(bytes)]
PrefixOf(w) == BigEndian(SubSeq(w.encoded, 1, PrefixWidth(w.kind)))

\* C30: a payload of any length, encoded and read back, comes back as it
\* was, the read stops exactly behind the encoded bytes, and the length
\* prefix of the encoding is the payload's length.
C30_RoundTrip ==
    wire.some =>
        /\ wire.v.read = Some(wire.v.payload)
        /\ wire.v.offs = Len(wire.v.encoded)
        /\ PrefixOf(wire.v) = Len(wire.v.payload)

\* A PayloadU8 of 256 bytes was encoded and read back.
C30_Overlong ==
    /\ wire.some
    /\ wire.v.kind = "PayloadU8"
    /\ Len(wire.v.payload) = 2^8
    /\ wire.v.read = Some(<<>>)
    /\ wire.v.offs = 1

====
